---- MODULE Spec2Model ----
(***************************************************************************)
(* Verification model of the Oroto CLI (zeki-oroto-cli): the Step          *)
(* Executor with its Project State Store, the Filesystem Command Module    *)
(* with the Response Parser, and the allow-list gate of the shell and      *)
(* background-process helpers.                                             *)
(*                                                                         *)
(* Three specifications share the module:                                  *)
(*   Spec     the Step Executor driven by a caller that starts tasks and   *)
(*            calls request_stop() (the test suite, the main loop)         *)
(*   SpecFs   the filesystem commands and ResponseParser.parse_and_execute *)
(*   SpecCmd  run_command_async / start_process and the allow-list         *)
(***************************************************************************)
EXTENDS Integers, Sequences, FiniteSets, TLC

(***************************************************************************)
(* Bounds                                                                  *)
(***************************************************************************)
MaxSteps == 2
MaxSubsteps == 2
MaxRuns == 2
MaxParts == 3
MaxOps == 2
MaxPieces == 3
MaxCalls == 2
MaxCmds == 5
MaxTasks == 2
MaxExecutors == 2
MaxCancels == 2
MaxDispatch == 2
MaxIdLen == 2
MaxPsOps == 2
MaxProcs == 3
MaxSends == 3
MaxContent == 2
MaxBlocks == 2
MaxReplies == 1
MaxTwCalls == 2
MaxNumSteps == 8
MaxWords == 2
MaxPlans == 2
MaxLines == 12
MaxLineLen == 40
MaxTrims == 2
MaxPortSpan == 2
MaxProbes == 2
MaxKeyLen == 2
MaxKeyOps == 3
MaxClock == 2
MaxPgSubsteps == 3
MaxPgRuns == 2
MaxBgProcs == 3
MaxDirectives == 2
MaxModelSteps == 10
MaxAnalyses == 1
MaxOgRuns == 3

ProjectIds == {"p1"}

VARIABLES
    \* ---- Step Executor / Project State Store ----
    store,            \* ProjectState: project id -> stored JSON record
    task,             \* the task running execute_complex_task (latest one)
    subs,             \* sub-step tasks (_run_substep) that exist
    tracked,          \* StepExecutor._current_substep_tasks (run whose tasks it lists, 0 = [])
    max_concurrency,  \* StepExecutor.max_concurrency
    sem,              \* StepExecutor._substep_sem: [id, cap]
    stop_requested,   \* StepExecutor._stop_requested
    helperDefined,    \* whether thinking_python exports classify_defects
    \* ---- Filesystem Command Module ----
    fsDirs,           \* directories that exist
    fsFiles,          \* <<file, content>> pairs that exist
    fsRes,            \* the last command: its number, name and result dict
    \* ---- shell and background-process helpers ----
    registry,         \* process_manager._REGISTRY (the ids it holds)
    last_pid,         \* process_manager._LAST_PID (0 = None)
    cmdRes,           \* the last call: its number, function, command and result dict
    \* ---- main(): the interaction loop ----
    mainPc,               \* where main() is: blocked in Prompt.ask or at one of its awaits
    step_executor,        \* the StepExecutor instance main() holds (instances are numbered)
    active_project_task,  \* the task main() tracks (0 = None)
    project_tasks,        \* the execute_complex_task tasks created so far
    lastCmd,              \* the last command read at the prompt and what it did
    \* ---- one call of run_command_async ----
    runCall,              \* the coroutine: where it is suspended, its timeout, pending cancel
    runProc,              \* the child process: its state and the signals sent to it
    runRes,               \* the result dict and whether the log file was written
    \* ---- execute_safe_command / execute_safe_command_async ----
    safeRes,              \* the last dispatcher call: its number, dispatcher, name and what came back
    \* ---- ProjectState ----
    psFiles,              \* the .json files of the project directory: <<project id, text>> pairs
    psSaved,              \* <<project id, data>>: the data last passed to a save_project call that returned
    psRes,                \* the last ProjectState call and what it gave
    \* ---- process_manager: the registry entries ----
    pmProcs,              \* process_manager._REGISTRY with each entry's status and its child process
    pmCall,               \* the stop_process / stop_all_processes call main() is in: idle, or suspended in wait_for
    pmRes,                \* the last process_manager call that returned to main() and its result dict
    \* ---- AIClient._send_remote_message ----
    keyStore,             \* AIClient.key_manager: whether there is one, and the use_user_key flag and encrypted_api_key of its store file
    api_key,              \* AIClient.api_key, the key read from the environment ("" = none)
    aiRes,                \* the last _send_remote_message call: the keys it found, whether it posted, the credential and the reply
    \* ---- ResponseParser.parse_and_execute on a whole reply ----
    prReply,              \* the AI reply being parsed: its blocks and its text
    prDirs,               \* directories on disk
    prFiles,              \* <<file, content>> pairs on disk
    prRes,                \* the results dict of parse_and_execute
    \* ---- create_folder / create_empty_file called again ----
    twDirs,               \* directories on disk
    twFiles,              \* <<file, content>> pairs on disk
    twPrev,               \* the call before the last one
    twLast,               \* the last call: the command, its path, its result and what it found and changed
    \* ---- thinking_python.break_down_task ----
    bdRes,                \* the last break_down_task / _generate_substeps call: its arguments and the list it returned
    \* ---- thinking_python.prevent_hallucination_in_long_tasks ----
    trimRes,              \* the last call of prevent_hallucination_in_long_tasks: its arguments and result
    \* ---- process_manager._find_available_port ----
    portRes,              \* the last call of _find_available_port: its range, the ports other listeners hold, the port returned
    \* ---- key_store.KeyStore ----
    ksStore,              \* the record in key_store.db ({} while there is no file)
    ksNow,                \* datetime.utcnow()
    ksRes,                \* the last KeyStore call: its name, argument, time, whether it raised, the record before it, and the key of the last set_user_key that returned
    \* ---- execute_complex_task and _run_substep: the progress they persist ----
    pgStore,              \* the stored record of the one project
    pgRun,                \* the execute_complex_task call: where it is and its locals
    pgSubs,               \* the _run_substep tasks of the call, by sub-step number
    pgHist,               \* what has happened to the project: steps executed, sub-steps completed, the saves of the current step, the last cancellation, the sub-steps repeated after a crash
    \* ---- process_manager: launch_auto and restart_process, and the finalization that launches ----
    bgProcs,              \* process_manager._REGISTRY: the entries in the order they were added (the id is the position)
    bgLast,               \* process_manager._LAST_PID (0 = None)
    bgCall,               \* the launch_auto / restart_process / stop_process call in flight: idle, or where it is suspended
    bgRes,                \* the last call that returned: its result dict and what it did
    finRec,               \* the finalization of execute_complex_task: where it is and the status of the stored record
    \* ---- ResponseParser.parse_and_execute_async on the directives of a reply ----
    paReply,              \* the reply being parsed: its directives in text order, each with what its command will do
    paRun,                \* the parse_and_execute_async call: where it is, the matches still to run, a pending cancellation
    paRes,                \* the results dict: the directives attempted so far in order, those that added to errors, operations
    \* ---- TaskPlanner.analyze_task ----
    atRes,                \* the last analyze_task call and the dict it returned
    \* ---- src/main.py (the initial generation): execute_complex_task ----
    ogStore,              \* the stored record of the one project, as the initial generation writes it
    ogRun                 \* the execute_complex_task call of the initial generation: where it is and its locals

execVars == <<store, task, subs, tracked, max_concurrency, sem,
              stop_requested, helperDefined>>

fsVars == <<fsDirs, fsFiles, fsRes>>

cmdVars == <<registry, last_pid, cmdRes>>

mainVars == <<mainPc, step_executor, active_project_task, project_tasks, lastCmd>>

runVars == <<runCall, runProc, runRes>>

safeVars == <<safeRes>>

psVars == <<psFiles, psSaved, psRes>>

pmVars == <<pmProcs, pmCall, pmRes>>

aiVars == <<keyStore, api_key, aiRes>>

parseVars == <<prReply, prDirs, prFiles, prRes>>

twiceVars == <<twDirs, twFiles, twPrev, twLast>>

planVars == <<bdRes>>

trimVars == <<trimRes>>

portVars == <<portRes>>

keyVars == <<ksStore, ksNow, ksRes>>

progVars == <<pgStore, pgRun, pgSubs, pgHist>>

bgVars == <<bgProcs, bgLast, bgCall, bgRes, finRec>>

paVars == <<paReply, paRun, paRes>>

atVars == <<atRes>>

ogVars == <<ogStore, ogRun>>

\* the variables of the components added after the first three
moreVars == <<mainVars, runVars, safeVars, psVars, pmVars, aiVars, parseVars, twiceVars, planVars, trimVars, portVars, keyVars, progVars, bgVars, paVars, atVars, ogVars>>

\* all variables but those of the named component
exceptMain == <<execVars, fsVars, cmdVars, runVars, safeVars, psVars, pmVars, aiVars, parseVars, twiceVars, planVars, trimVars, portVars, keyVars, progVars, bgVars, paVars, atVars, ogVars>>
exceptRun == <<execVars, fsVars, cmdVars, mainVars, safeVars, psVars, pmVars, aiVars, parseVars, twiceVars, planVars, trimVars, portVars, keyVars, progVars, bgVars, paVars, atVars, ogVars>>
exceptSafe == <<execVars, fsVars, cmdVars, mainVars, runVars, psVars, pmVars, aiVars, parseVars, twiceVars, planVars, trimVars, portVars, keyVars, progVars, bgVars, paVars, atVars, ogVars>>
exceptPs == <<execVars, fsVars, cmdVars, mainVars, runVars, safeVars, pmVars, aiVars, parseVars, twiceVars, planVars, trimVars, portVars, keyVars, progVars, bgVars, paVars, atVars, ogVars>>
exceptPm == <<execVars, fsVars, cmdVars, mainVars, runVars, safeVars, psVars, aiVars, parseVars, twiceVars, planVars, trimVars, portVars, keyVars, progVars, bgVars, paVars, atVars, ogVars>>
exceptAi == <<execVars, fsVars, cmdVars, mainVars, runVars, safeVars, psVars, pmVars, parseVars, twiceVars, planVars, trimVars, portVars, keyVars, progVars, bgVars, paVars, atVars, ogVars>>
exceptParse == <<execVars, fsVars, cmdVars, mainVars, runVars, safeVars, psVars, pmVars, aiVars, twiceVars, planVars, trimVars, portVars, keyVars, progVars, bgVars, paVars, atVars, ogVars>>
exceptTwice == <<execVars, fsVars, cmdVars, mainVars, runVars, safeVars, psVars, pmVars, aiVars, parseVars, planVars, trimVars, portVars, keyVars, progVars, bgVars, paVars, atVars, ogVars>>
exceptPlan == <<execVars, fsVars, cmdVars, mainVars, runVars, safeVars, psVars, pmVars, aiVars, parseVars, twiceVars, trimVars, portVars, keyVars, progVars, bgVars, paVars, atVars, ogVars>>
exceptTrim == <<execVars, fsVars, cmdVars, mainVars, runVars, safeVars, psVars, pmVars, aiVars, parseVars, twiceVars, planVars, portVars, keyVars, progVars, bgVars, paVars, atVars, ogVars>>
exceptPort == <<execVars, fsVars, cmdVars, mainVars, runVars, safeVars, psVars, pmVars, aiVars, parseVars, twiceVars, planVars, trimVars, keyVars, progVars, bgVars, paVars, atVars, ogVars>>
exceptKey == <<execVars, fsVars, cmdVars, mainVars, runVars, safeVars, psVars, pmVars, aiVars, parseVars, twiceVars, planVars, trimVars, portVars, progVars, bgVars, paVars, atVars, ogVars>>
exceptProg == <<execVars, fsVars, cmdVars, mainVars, runVars, safeVars, psVars, pmVars, aiVars, parseVars, twiceVars, planVars, trimVars, portVars, keyVars, bgVars, paVars, atVars, ogVars>>
exceptBg == <<execVars, fsVars, cmdVars, mainVars, runVars, safeVars, psVars, pmVars, aiVars, parseVars, twiceVars, planVars, trimVars, portVars, keyVars, progVars, paVars, atVars, ogVars>>
exceptPa == <<execVars, fsVars, cmdVars, mainVars, runVars, safeVars, psVars, pmVars, aiVars, parseVars, twiceVars, planVars, trimVars, portVars, keyVars, progVars, bgVars, atVars, ogVars>>
exceptAt == <<execVars, fsVars, cmdVars, mainVars, runVars, safeVars, psVars, pmVars, aiVars, parseVars, twiceVars, planVars, trimVars, portVars, keyVars, progVars, bgVars, paVars, ogVars>>
exceptOg == <<execVars, fsVars, cmdVars, mainVars, runVars, safeVars, psVars, pmVars, aiVars, parseVars, twiceVars, planVars, trimVars, portVars, keyVars, progVars, bgVars, paVars, atVars>>

vars == <<store, task, subs, tracked, max_concurrency, sem,
          stop_requested, helperDefined, fsDirs, fsFiles, fsRes,
          registry, last_pid, cmdRes, moreVars>>

(***************************************************************************)
(* Project State Store                                                     *)
(***************************************************************************)
StepIdx == 1..MaxSteps

EmptyMap == [k \in StepIdx |-> 0]   \* substeps_map {}: 0 = key absent, n = n sub-steps

NoRecord == [status |-> "absent", current_step |-> 0, current_substep |-> 0,
             permission_granted |-> FALSE, steps |-> 0, substeps_map |-> EmptyMap]

\* ProjectState.load_project
load_project(pid) == store[pid]

\* ProjectState.save_project: whole-file overwrite
save_project(st, pid, data) == [st EXCEPT ![pid] = data]

ProjectData(status, cs, css, perm, steps, smap) ==
    [status |-> status, current_step |-> cs, current_substep |-> css,
     permission_granted |-> perm, steps |-> steps, substeps_map |-> smap]

Max(a, b) == IF a >= b THEN a ELSE b
Min(a, b) == IF a <= b THEN a ELSE b

(***************************************************************************)
(* StepExecutor.__init__                                                   *)
(***************************************************************************)
DefaultConcurrency == 2
MinConcurrency == 1
MaxConcurrency == 8

NoHint == [given |-> FALSE, k |-> 0]
HintValues == {0, 9}
Hints == {NoHint} \cup {[given |-> TRUE, k |-> v] : v \in HintValues}

NoTask == [st |-> "none", run |-> 0, pid |-> "p1", explicit |-> FALSE, steps |-> 0,
           hint |-> NoHint, start |-> 0, startSub |-> 0, i |-> 0, perm |-> FALSE,
           smap |-> EmptyMap, asked |-> FALSE, resumed |-> FALSE, stopIssued |-> FALSE,
           gexc |-> "none", ran |-> {}]

\* the operator answered the permission prompt of this run negatively
Declined(t) == t.asked /\ ~t.perm

TaskLive(t) == t.st \in {"created", "gather", "launch"}
TaskFinished(t) == t.st \in {"done", "failed", "cancelled"}

\* how a sub-step task ended: returned, CancelledError, ImportError (the import
\* at the top of _run_substep), UnboundLocalError (parse_results at the summary)
SubOutcomes == {"ok", "cancelled", "importerr", "unbound"}

SubLive(s) == s.st \in {"wait", "ai", "cmd", "retry", "rcmd", "killing"}
SubHolding(s) == s.st \in {"ai", "cmd", "retry", "rcmd", "killing"}
SubDone(s) == ~SubLive(s)

InitExec ==
    /\ store = [p \in ProjectIds |-> NoRecord]
    /\ task = NoTask
    /\ subs = {}
    /\ tracked = 0
    /\ max_concurrency = DefaultConcurrency
    /\ sem = [id |-> 0, cap |-> DefaultConcurrency]
    /\ stop_requested = FALSE
    /\ helperDefined \in BOOLEAN


(***************************************************************************)
(* Caller: asyncio.create_task(step_executor.execute_complex_task(...))    *)
(***************************************************************************)
Start(pid, explicit, steps, hint) ==
    /\ task.st \in {"none", "done", "failed", "cancelled"}
    /\ task.run < MaxRuns
    \* resume passes the stored plan (main.py resume branch)
    /\ (explicit /\ store[pid].status # "absent") => steps = store[pid].steps
    \* resume passes no complexity_hint (main.py resume branch)
    /\ explicit => hint = NoHint
    \* bound: a hint comes only while the semaphore is the one __init__ built
    /\ hint.given => sem.id = 0
    /\ task' = [NoTask EXCEPT !.st = "created", !.run = task.run + 1, !.pid = pid,
                              !.explicit = explicit, !.steps = steps, !.hint = hint]
    /\ UNCHANGED <<store, subs, tracked, max_concurrency, sem, stop_requested,
                   helperDefined, fsVars, cmdVars, moreVars>>

(***************************************************************************)
(* StepExecutor.execute_complex_task                                       *)
(***************************************************************************)
Clamp(k) == Max(MinConcurrency, Min(MaxConcurrency, k))

\* a faulty variant: the level follows the hint but the old semaphore is kept
ApplyConcurrencyKeepSem(mc, sm, hint, newId) ==
    [mc |-> Clamp(IF hint.given THEN hint.k ELSE mc), sem |-> sm]

\* "Apply dynamic concurrency": the new level and semaphore; the semaphore the
\* code builds is identified by the run that built it.
ApplyConcurrency(mc, sm, hint, newId) ==
    LET k == Clamp(IF hint.given THEN hint.k ELSE mc)
    IN  IF k # mc THEN [mc |-> k, sem |-> [id |-> newId, cap |-> k]]
                  ELSE [mc |-> mc, sem |-> sm]

\* The step the block after the for loop works on: the for loop body only
\* prints, so after it the loop variable i holds the last index of
\* range(current_step_completed + 1, total_steps + 1).
StepAfterLoop(start, total) == total

\* range(current_step_completed + 1, total_steps + 1) is empty: i is unbound
LoopRangeEmpty(start, total) == start + 1 > total

\* asyncio.create_task(self._run_substep(i, j, ...)) for j = 1..n
NewSubsteps(run, n, sm, data) ==
    {[run |-> run, j |-> j, st |-> "wait", cancel |-> FALSE, sem |-> sm, data |-> data,
      calls |-> 0, errors |-> <<>>, retry |-> "none", mem |-> {}] :
        j \in 1..n}

\* From the task's first scheduling to `await asyncio.gather(*tasks)`: load,
\* permission prompt, initial save, concurrency, the for loop, sub-step
\* generation with its save, and the creation of the sub-step tasks.
\* answer: the operator's reply to Confirm.ask; nsub: len(_generate_substeps()).
ECT_Run(answer, nsub) ==
    /\ task.st = "created"
    /\ LET pid      == task.pid
           saved    == IF task.explicit THEN load_project(pid) ELSE NoRecord
           has      == saved.status # "absent"
           perm0    == IF has THEN saved.permission_granted ELSE FALSE
           smap0    == IF has THEN saved.substeps_map ELSE EmptyMap
           start    == IF has THEN saved.current_step ELSE 0
           startSub == IF has THEN saved.current_substep ELSE 0
           ask      == ~perm0
           perm     == IF ask THEN answer ELSE perm0
           total    == task.steps
           conc     == ApplyConcurrency(max_concurrency, sem, task.hint, task.run)
           empty    == LoopRangeEmpty(start, total)
           i        == StepAfterLoop(start, total)
           gen      == smap0[i] = 0
           smap     == IF gen THEN [smap0 EXCEPT ![i] = nsub] ELSE smap0
           data     == [pid |-> pid, steps |-> total, cs |-> i - 1, perm |-> perm,
                        smap |-> smap]
       IN  /\ ask \/ answer
           /\ (empty \/ ~gen) => nsub = 1
           /\ max_concurrency' = conc.mc
           /\ sem' = conc.sem
           /\ IF empty
              THEN \* UnboundLocalError on `str(i)`: only the initial save happened
                   /\ store' = save_project(store, pid,
                                  ProjectData("in_progress", start, startSub, perm, total, smap0))
                   /\ task' = [task EXCEPT !.st = "failed", !.start = start,
                                           !.startSub = startSub, !.perm = perm,
                                           !.smap = smap0, !.asked = ask, !.resumed = has]
                   /\ UNCHANGED <<subs, tracked>>
              ELSE /\ store' = save_project(store, pid,
                                  ProjectData("in_progress", start, startSub, perm, total, smap))
                   /\ subs' = subs \cup NewSubsteps(task.run, smap[i], conc.sem, data)
                   /\ tracked' = task.run
                   /\ task' = [task EXCEPT !.st = "gather", !.start = start,
                                           !.startSub = startSub, !.i = i, !.perm = perm,
                                           !.smap = smap, !.asked = ask, !.resumed = has]
    /\ UNCHANGED <<stop_requested, helperDefined, fsVars, cmdVars, moreVars>>

CurSubs == {s \in subs : s.run = task.run}

\* asyncio.gather returned normally: step save, finalization (status=completed),
\* then `await execute_safe_command_async("launch_auto", ...)`
GatherOk ==
    /\ task.st = "gather"
    /\ task.gexc = "none"
    /\ \A s \in CurSubs : s.st = "ok"
    /\ store' = save_project(store, task.pid,
                    ProjectData("completed", task.i, task.smap[task.i], task.perm,
                                task.steps, task.smap))
    /\ tracked' = 0
    /\ subs' = subs \ CurSubs
    /\ task' = [task EXCEPT !.st = "launch", !.ran = @ \cup {task.i}]
    /\ UNCHANGED <<max_concurrency, sem, stop_requested, helperDefined, fsVars, cmdVars, moreVars>>

\* asyncio.gather raised what the first failing sub-step task raised
GatherRaise ==
    /\ task.st = "gather"
    /\ task.gexc # "none"
    /\ IF task.gexc = "cancel"
       THEN \* except asyncio.CancelledError: project_data["status"] = "stopped"; save; raise
            /\ store' = save_project(store, task.pid,
                            ProjectData("stopped", task.start, task.startSub, task.perm,
                                        task.steps, task.smap))
            /\ task' = [task EXCEPT !.st = "cancelled"]
       ELSE /\ store' = store
            /\ task' = [task EXCEPT !.st = "failed"]
    /\ subs' = {s \in subs : SubLive(s)}
    /\ UNCHANGED <<tracked, max_concurrency, sem, stop_requested, helperDefined, fsVars, cmdVars, moreVars>>

\* the auto-launch attempt and the final panel
LaunchDone ==
    /\ task.st = "launch"
    /\ task' = [task EXCEPT !.st = "done"]
    /\ UNCHANGED <<store, subs, tracked, max_concurrency, sem, stop_requested,
                   helperDefined, fsVars, cmdVars, moreVars>>

(***************************************************************************)
(* StepExecutor.request_stop                                               *)
(***************************************************************************)
\* a faulty variant: only the tasks that hold the semaphore are cancelled
request_stop_holders_only ==
    /\ stop_requested' = TRUE
    /\ subs' = {IF s.run = tracked /\ SubHolding(s) THEN [s EXCEPT !.cancel = TRUE] ELSE s :
                   s \in subs}
    /\ task' = IF TaskLive(task) THEN [task EXCEPT !.stopIssued = TRUE] ELSE task
    /\ UNCHANGED <<store, tracked, max_concurrency, sem, helperDefined, fsVars, cmdVars, moreVars>>

\* sets the flag and calls cancel() on every tracked task that is not done
request_stop ==
    /\ stop_requested' = TRUE
    /\ subs' = {IF s.run = tracked /\ SubLive(s) THEN [s EXCEPT !.cancel = TRUE] ELSE s :
                   s \in subs}
    /\ task' = IF TaskLive(task) THEN [task EXCEPT !.stopIssued = TRUE] ELSE task
    /\ UNCHANGED <<store, tracked, max_concurrency, sem, helperDefined, fsVars, cmdVars, moreVars>>

(***************************************************************************)
(* StepExecutor._run_substep                                               *)
(***************************************************************************)
ReplyKinds == {"empty", "files", "errors", "run"}

\* the sub-step task is one of those execute_complex_task is gathering
Attached(s) == s.run = task.run /\ task.st = "gather"

\* tasks holding / queued on the same asyncio.Semaphore object
Holders(sm) == {s \in subs : SubHolding(s) /\ s.sem.id = sm.id}
Waiters(sm) == {s \in subs : s.st = "wait" /\ s.sem.id = sm.id}
Before(a, b) == a.run < b.run \/ (a.run = b.run /\ a.j < b.j)

\* the record _run_substep writes: current_step = i - 1
SubstepData(s, status, css) ==
    ProjectData(status, s.data.cs, css, s.data.perm, s.data.steps, s.data.smap)

\* The sub-step task s, its locals now those of t, ends with outcome st2;
\* gather raises the first abnormal one.
EndSubAs(s, t, st2) ==
    /\ subs' = IF Attached(s)
               THEN (subs \ {s}) \cup {[t EXCEPT !.st = st2, !.cancel = FALSE]}
               ELSE subs \ {s}
    /\ task' = IF Attached(s) /\ task.gexc = "none" /\ st2 # "ok"
               THEN [task EXCEPT !.gexc = IF st2 = "cancelled" THEN "cancel" ELSE "exc"]
               ELSE task

EndSub(s, st2) == EndSubAs(s, s, st2)

\* the sub-step task s, its locals now those of t, suspends at the await st2
MoveSubAs(s, t, st2) ==
    /\ subs' = (subs \ {s}) \cup {[t EXCEPT !.st = st2, !.cancel = FALSE]}
    /\ task' = task

MoveSub(s, st2) == MoveSubAs(s, s, st2)

\* "Mark sub-step complete immediately": save status in_progress, current_substep = j
SubCompleteAs(s, t) ==
    /\ store' = save_project(store, s.data.pid, SubstepData(s, "in_progress", s.j))
    /\ EndSubAs(s, t, "ok")

SubComplete(s) == SubCompleteAs(s, s)

\* a faulty variant: the retry is issued whatever the first pass reported
retry_always(parse_errors) == TRUE

\* `if parse_results.get("errors"):` the errors list of the first pass is non-empty
retry_needed(parse_errors) == parse_errors # <<>>

\* After the first parse_and_execute_async returned with the errors list
\* parse_errors: either the one retry call or the completion save.
AfterFirstPass(s, parse_errors) ==
    LET t == [s EXCEPT !.errors = parse_errors]
    IN  IF retry_needed(parse_errors)
        THEN MoveSubAs(s, [t EXCEPT !.calls = @ + 1], "retry") /\ store' = store
        ELSE SubCompleteAs(s, t)

\* except asyncio.CancelledError: save status stopped, current_substep = max(0, j-1); raise
SubCancelled(s) ==
    /\ store' = save_project(store, s.data.pid, SubstepData(s, "stopped", Max(0, s.j - 1)))
    /\ EndSub(s, "cancelled")

\* `from thinking_python import ..., classify_defects` fails: ImportError
SubImportFail(s) ==
    /\ s.st = "wait"
    /\ ~helperDefined
    /\ EndSub(s, "importerr")
    /\ UNCHANGED <<store, tracked, max_concurrency, sem, stop_requested,
                   helperDefined, fsVars, cmdVars, moreVars>>

\* `async with self._substep_sem` (asyncio.Semaphore is FIFO), then the AI call
SubAcquire(s) ==
    /\ s.st = "wait"
    /\ helperDefined
    /\ ~s.cancel
    /\ Cardinality(Holders(s.sem)) < s.sem.cap
    /\ \A w \in Waiters(s.sem) : w = s \/ Before(s, w)
    /\ MoveSubAs(s, [s EXCEPT !.calls = @ + 1], "ai")
    /\ UNCHANGED <<store, tracked, max_concurrency, sem, stop_requested,
                   helperDefined, fsVars, cmdVars, moreVars>>

\* send_message returned: "" | directives without errors | with errors | a RUN directive
AiReply(s, reply) ==
    /\ s.st = "ai"
    /\ ~s.cancel
    /\ CASE reply = "empty"  -> EndSub(s, "unbound") /\ store' = store  \* parse_results unbound
         [] reply = "files"  -> AfterFirstPass(s, <<>>)
         [] reply = "errors" -> AfterFirstPass(s, <<"error">>)
         [] reply = "run"    -> MoveSub(s, "cmd") /\ store' = store
    /\ UNCHANGED <<tracked, max_concurrency, sem, stop_requested, helperDefined, fsVars, cmdVars, moreVars>>

\* the RUN command of the reply ended; errs: parse_results["errors"] non-empty
CmdDone(s, errs) ==
    /\ s.st = "cmd"
    /\ ~s.cancel
    /\ AfterFirstPass(s, IF errs THEN <<"error">> ELSE <<>>)
    /\ UNCHANGED <<tracked, max_concurrency, sem, stop_requested, helperDefined, fsVars, cmdVars, moreVars>>

\* the one retry: its reply is parsed if non-empty, its files and folders go to
\* memory, its errors are not looked at
RetryReply(s, reply) ==
    /\ s.st = "retry"
    /\ ~s.cancel
    /\ LET t == [s EXCEPT !.retry = reply,
                          !.mem = IF reply = "files" THEN @ \cup {"retry"} ELSE @]
       IN  IF reply = "run" THEN MoveSubAs(s, t, "rcmd") /\ store' = store
                            ELSE SubCompleteAs(s, t)
    /\ UNCHANGED <<tracked, max_concurrency, sem, stop_requested, helperDefined, fsVars, cmdVars, moreVars>>

RetryCmdDone(s) ==
    /\ s.st = "rcmd"
    /\ ~s.cancel
    /\ SubComplete(s)
    /\ UNCHANGED <<tracked, max_concurrency, sem, stop_requested, helperDefined, fsVars, cmdVars, moreVars>>

\* Task.cancel() takes effect at the await the task is suspended on
CancelDeliver(s) ==
    /\ s.cancel
    /\ SubLive(s)
    /\ CASE s.st = "wait"              -> EndSub(s, "cancelled") /\ store' = store
         [] s.st \in {"ai", "retry"}   -> SubCancelled(s)
         [] s.st \in {"cmd", "rcmd"}   -> MoveSub(s, "killing") /\ store' = store
         [] s.st = "killing"           -> SubCancelled(s)
    /\ UNCHANGED <<tracked, max_concurrency, sem, stop_requested, helperDefined, fsVars, cmdVars, moreVars>>

\* run_command_async's cancel handler killed the child and re-raised
KillDone(s) ==
    /\ s.st = "killing"
    /\ ~s.cancel
    /\ SubCancelled(s)
    /\ UNCHANGED <<tracked, max_concurrency, sem, stop_requested, helperDefined, fsVars, cmdVars, moreVars>>

NextExec ==
    \/ \E pid \in ProjectIds, explicit \in BOOLEAN, steps \in 1..MaxSteps, hint \in Hints :
          Start(pid, explicit, steps, hint)
    \/ \E answer \in BOOLEAN, nsub \in 1..MaxSubsteps : ECT_Run(answer, nsub)
    \/ GatherOk
    \/ GatherRaise
    \/ LaunchDone
    \/ request_stop
    \/ \E s \in subs : SubImportFail(s)
    \/ \E s \in subs : SubAcquire(s)
    \/ \E s \in subs, reply \in ReplyKinds : AiReply(s, reply)
    \/ \E s \in subs, errs \in BOOLEAN : CmdDone(s, errs)
    \/ \E s \in subs, reply \in ReplyKinds : RetryReply(s, reply)
    \/ \E s \in subs : RetryCmdDone(s)
    \/ \E s \in subs : CancelDeliver(s)
    \/ \E s \in subs : KillDone(s)

(***************************************************************************)
(* Filesystem Command Module (commands.py)                                 *)
(*                                                                         *)
(* A path string is [abs, parts]: whether it starts with "/" and its       *)
(* components.  The file system is a set of directories and a set of       *)
(* <<file, content>> pairs, both over absolute component sequences; there  *)
(* are no symbolic links.  Each command is an operator from the file       *)
(* system and its arguments to the new file system and the result dict.    *)
(***************************************************************************)
Names == {"w", "f"}
Parts == Names \cup {".."}
SeqsUpTo(S, n) == UNION {[1..k -> S] : k \in 0..n}
PathInputs == [abs : BOOLEAN, parts : SeqsUpTo(Parts, MaxParts)]

\* Path.cwd(): the process runs in /w
Cwd == <<"w">>

Parent(r) == IF r = <<>> THEN <<>> ELSE SubSeq(r, 1, Len(r) - 1)

RECURSIVE Normalize(_, _)
Normalize(base, parts) ==
    IF parts = <<>> THEN base
    ELSE Normalize(IF Head(parts) = ".." THEN Parent(base) ELSE Append(base, Head(parts)),
                   Tail(parts))

\* Path(p).resolve()
Resolve(p) == Normalize(IF p.abs THEN <<>> ELSE Cwd, p.parts)

Under(r, x) == Len(x) >= Len(r) /\ SubSeq(x, 1, Len(r)) = r

\* target_path.relative_to(Path.cwd().resolve()) does not raise
Inside(r) == Under(Cwd, r)

Ancestors(r) == {SubSeq(r, 1, k) : k \in 0..Len(r)}
IsDir(d, r) == r \in d
IsFile(fl, r) == \E e \in fl : e[1] = r
PathExists(d, fl, r) == IsDir(d, r) \/ IsFile(fl, r)
WriteAt(fl, r, c) == {e \in fl : e[1] # r} \cup {<<r, c>>}

\* the result of a command: the file system after it, success, error, what it read
FsResult(d, fl, ok, err, rd) ==
    [dirs |-> d, files |-> fl, success |-> ok, error |-> err, read |-> rd]

AccessDenied == "Access denied: Path outside project directory"

\* Path.mkdir(parents=True, exist_ok=True) on a resolved path
mkdir_parents(d, fl, r) ==
    IF \E a \in Ancestors(r) : IsFile(fl, a)
    THEN [ok |-> FALSE, dirs |-> d]
    ELSE [ok |-> TRUE, dirs |-> d \cup Ancestors(r)]

list_directory(d, fl, p) ==
    LET t == Resolve(p)
    IN  IF ~Inside(t) THEN FsResult(d, fl, FALSE, AccessDenied, {})
        ELSE IF ~PathExists(d, fl, t) THEN FsResult(d, fl, FALSE, "Path not found", {})
        ELSE IF ~IsDir(d, t) THEN FsResult(d, fl, FALSE, "Not a directory", {})
        ELSE FsResult(d, fl, TRUE, "", {t})

read_file(d, fl, p) ==
    LET t == Resolve(p)
    IN  IF ~Inside(t) THEN FsResult(d, fl, FALSE, AccessDenied, {})
        ELSE IF ~PathExists(d, fl, t) THEN FsResult(d, fl, FALSE, "File not found", {})
        ELSE IF ~IsFile(fl, t) THEN FsResult(d, fl, FALSE, "Not a file", {})
        ELSE FsResult(d, fl, TRUE, "", {t})

write_file(d, fl, p, content) ==
    LET t  == Resolve(p)
        mk == mkdir_parents(d, fl, Parent(t))
    IN  IF ~Inside(t) THEN FsResult(d, fl, FALSE, AccessDenied, {})
        ELSE IF ~mk.ok THEN FsResult(d, fl, FALSE, "OSError", {})
        ELSE IF IsDir(mk.dirs, t) THEN FsResult(mk.dirs, fl, FALSE, "OSError", {})
        ELSE FsResult(mk.dirs, WriteAt(fl, t, content), TRUE, "", {})

create_empty_file(d, fl, p) ==
    LET t  == Resolve(p)
        mk == mkdir_parents(d, fl, Parent(t))
    IN  IF ~Inside(t) THEN FsResult(d, fl, FALSE, AccessDenied, {})
        ELSE IF ~mk.ok THEN FsResult(d, fl, FALSE, "OSError", {})
        ELSE IF PathExists(mk.dirs, fl, t) THEN FsResult(mk.dirs, fl, TRUE, "", {})
        ELSE FsResult(mk.dirs, WriteAt(fl, t, ""), TRUE, "", {})

delete_file(d, fl, p) ==
    LET t == Resolve(p)
    IN  IF ~Inside(t) THEN FsResult(d, fl, FALSE, AccessDenied, {})
        ELSE IF ~PathExists(d, fl, t) THEN FsResult(d, fl, FALSE, "File not found", {})
        ELSE IF ~IsFile(fl, t) THEN FsResult(d, fl, FALSE, "Not a file", {})
        ELSE FsResult(d, {e \in fl : e[1] # t}, TRUE, "", {})

delete_folder(d, fl, p, recursive) ==
    LET t     == Resolve(p)
        empty == /\ \A x \in d : Under(t, x) => x = t
                 /\ \A e \in fl : ~Under(t, e[1])
    IN  IF ~Inside(t) THEN FsResult(d, fl, FALSE, AccessDenied, {})
        ELSE IF ~PathExists(d, fl, t) THEN FsResult(d, fl, FALSE, "Folder not found", {})
        ELSE IF ~IsDir(d, t) THEN FsResult(d, fl, FALSE, "Not a folder", {})
        ELSE IF recursive
             THEN FsResult({x \in d : ~Under(t, x)}, {e \in fl : ~Under(t, e[1])}, TRUE, "", {})
        ELSE IF ~empty THEN FsResult(d, fl, FALSE, "OSError", {})
        ELSE FsResult(d \ {t}, fl, TRUE, "", {})

create_folder(d, fl, p) ==
    LET t  == Resolve(p)
        mk == mkdir_parents(d, fl, t)
    IN  IF ~Inside(t) THEN FsResult(d, fl, FALSE, AccessDenied, {})
        ELSE IF PathExists(d, fl, t) THEN FsResult(d, fl, TRUE, "", {})
        ELSE IF ~mk.ok THEN FsResult(d, fl, FALSE, "OSError", {})
        ELSE FsResult(mk.dirs, fl, TRUE, "", {})

get_project_structure(d, fl, p) ==
    LET t == Resolve(p)
    IN  IF ~Inside(t) THEN FsResult(d, fl, FALSE, AccessDenied, {})
        ELSE IF ~IsDir(d, t) THEN FsResult(d, fl, FALSE, "OSError", {})
        ELSE FsResult(d, fl, TRUE, "", {x \in d : Under(t, x)})

RECURSIVE MkdirWalk(_, _, _, _)
\* Path.mkdir(parents=True, exist_ok=True) on an unresolved path: the kernel
\* follows ".." physically, missing directories are created one by one and a
\* file in the way raises.
MkdirWalk(cur, parts, d, fl) ==
    IF parts = <<>> THEN [ok |-> TRUE, at |-> cur, dirs |-> d]
    ELSE IF Head(parts) = ".." THEN MkdirWalk(Parent(cur), Tail(parts), d, fl)
    ELSE LET nxt == Append(cur, Head(parts))
         IN  IF IsFile(fl, nxt) THEN [ok |-> FALSE, at |-> nxt, dirs |-> d]
             ELSE MkdirWalk(nxt, Tail(parts), d \cup {nxt}, fl)

\* the `structure` argument: no folder, or one folder holding one file
Structures ==
    {<<>>} \cup {<<[folder |-> fo, file |-> "f"]>> : fo \in {<<"d">>, <<"..", "d">>}}

\* project_path = Path.cwd() / project_name, used as it is (no resolve, no check)
create_project_structure(d, fl, p, structure) ==
    LET root == MkdirWalk(IF p.abs THEN <<>> ELSE Cwd, p.parts, d, fl)
    IN  IF ~root.ok THEN FsResult(root.dirs, fl, FALSE, "OSError", {})
        ELSE IF structure = <<>> THEN FsResult(root.dirs, fl, TRUE, "", {})
        ELSE LET fo == MkdirWalk(root.at, structure[1].folder, root.dirs, fl)
                 fp == Append(fo.at, structure[1].file)
             IN  IF ~fo.ok \/ IsDir(fo.dirs, fp)
                 THEN FsResult(fo.dirs, fl, FALSE, "OSError", {})
                 ELSE FsResult(fo.dirs, WriteAt(fl, fp, "new"), TRUE, "", {})

\* thinking_python.validate_file_path(file_path) with the default base_dir
validate_file_path(p) ==
    /\ \A k \in 1..Len(p.parts) : p.parts[k] # ".."
    /\ Inside(Resolve(p))

CarouselAssets == {"index.html", "carousel.css", "carousel.js"}

\* create_carousel_project(carousel_name, files={}, include_index=True)
create_carousel_project(d, fl, p) ==
    LET t == Resolve(p)
    IN  IF ~validate_file_path(p) THEN FsResult(d, fl, FALSE, "Invalid carousel name", {})
        ELSE IF ~Inside(t)
             THEN FsResult(d, fl, FALSE, "Carousel path outside working directory", {})
        ELSE IF IsFile(fl, t) \/ ~IsDir(d, Parent(t)) THEN FsResult(d, fl, FALSE, "OSError", {})
        ELSE FsResult(d \cup {t},
                      {e \in fl : e[1] \notin {Append(t, a) : a \in CarouselAssets}}
                          \cup {<<Append(t, a), "new">> : a \in CarouselAssets},
                      TRUE, "", {})

(***************************************************************************)
(* ResponseParser.parse_and_execute: one directive of the reply            *)
(***************************************************************************)
RECURSIVE OsLookup(_, _, _, _)
\* os.path.exists / open on an unresolved path: every component the kernel
\* passes through must be a directory
OsLookup(cur, parts, d, fl) ==
    IF parts = <<>> THEN [found |-> PathExists(d, fl, cur), at |-> cur]
    ELSE IF ~IsDir(d, cur) THEN [found |-> FALSE, at |-> cur]
    ELSE OsLookup(IF Head(parts) = ".." THEN Parent(cur) ELSE Append(cur, Head(parts)),
                  Tail(parts), d, fl)

\* CREATE_FILE: diff against the existing file, create_folder(parent),
\* create_empty_file, write_file
ParseCreateFile(d, fl, p) ==
    LET lk  == OsLookup(IF p.abs THEN <<>> ELSE Cwd, p.parts, d, fl)
        rd  == IF lk.found /\ IsFile(fl, lk.at) THEN {lk.at} ELSE {}
        par == [abs |-> p.abs, parts |-> Parent(p.parts)]
        r1  == create_folder(d, fl, par)
        r2  == create_empty_file(r1.dirs, r1.files, p)
        r3  == write_file(r2.dirs, r2.files, p, "new")
    IN  FsResult(r3.dirs, r3.files, r3.success, r3.error, rd)

\* CREATE_PROJECT: create_project_structure(project_name, json structure)
ParseCreateProject(d, fl, p, structure) == create_project_structure(d, fl, p, structure)

\* CREATE_FOLDER: create_folder(folder_path)
ParseCreateFolder(d, fl, p) == create_folder(d, fl, p)

\* the disk at start: /w is the working directory and holds the file f; the
\* file /f lies outside it
InitFs ==
    /\ fsDirs = {<<>>, Cwd}
    /\ fsFiles = {<<Append(Cwd, "f"), "old">>, <<(<<"f">>), "secret">>}
    /\ fsRes = [n |-> 0, op |-> "none", outside |-> FALSE, success |-> FALSE,
                error |-> "", read |-> {}]

(***************************************************************************)
(* The commands as steps of a caller (execute_safe_command, the parser)    *)
(***************************************************************************)
\* one more command was run: its effect on the disk and what it returned
FsDone(op, p, r) ==
    /\ fsDirs' = r.dirs
    /\ fsFiles' = r.files
    /\ fsRes' = [n |-> fsRes.n + 1, op |-> op, outside |-> ~Inside(Resolve(p)),
                 success |-> r.success, error |-> r.error, read |-> r.read]
    /\ UNCHANGED <<execVars, cmdVars, moreVars>>

ListDirectory(p) == FsDone("list_directory", p, list_directory(fsDirs, fsFiles, p))
ReadFile(p) == FsDone("read_file", p, read_file(fsDirs, fsFiles, p))
WriteFile(p) == FsDone("write_file", p, write_file(fsDirs, fsFiles, p, "new"))
CreateEmptyFile(p) == FsDone("create_empty_file", p, create_empty_file(fsDirs, fsFiles, p))
DeleteFile(p) == FsDone("delete_file", p, delete_file(fsDirs, fsFiles, p))
\* the working directory itself is never the folder to delete
DeleteFolder(p, recursive) ==
    /\ Resolve(p) # Cwd
    /\ FsDone("delete_folder", p, delete_folder(fsDirs, fsFiles, p, recursive))
CreateFolder(p) == FsDone("create_folder", p, create_folder(fsDirs, fsFiles, p))
CreateProjectStructure(p, structure) ==
    FsDone("create_project_structure", p,
           create_project_structure(fsDirs, fsFiles, p, structure))
GetProjectStructure(p) ==
    FsDone("get_project_structure", p, get_project_structure(fsDirs, fsFiles, p))
CreateCarouselProject(p) ==
    FsDone("create_carousel_project", p, create_carousel_project(fsDirs, fsFiles, p))

ParseFileDirective(p) == FsDone("CREATE_FILE", p, ParseCreateFile(fsDirs, fsFiles, p))
ParseProjectDirective(p, structure) ==
    FsDone("CREATE_PROJECT", p, ParseCreateProject(fsDirs, fsFiles, p, structure))
ParseFolderDirective(p) == FsDone("CREATE_FOLDER", p, ParseCreateFolder(fsDirs, fsFiles, p))

FsOps == {"list_directory", "read_file", "write_file", "create_empty_file", "delete_file",
          "delete_folder", "create_folder", "create_project_structure",
          "get_project_structure", "create_carousel_project"}
ParserOps == {"CREATE_FILE", "CREATE_PROJECT", "CREATE_FOLDER"}

NextFs ==
    \/ fsRes.n < MaxOps /\ \E p \in PathInputs : ListDirectory(p)
    \/ fsRes.n < MaxOps /\ \E p \in PathInputs : ReadFile(p)
    \/ fsRes.n < MaxOps /\ \E p \in PathInputs : WriteFile(p)
    \/ fsRes.n < MaxOps /\ \E p \in PathInputs : CreateEmptyFile(p)
    \/ fsRes.n < MaxOps /\ \E p \in PathInputs : DeleteFile(p)
    \/ fsRes.n < MaxOps /\ \E p \in PathInputs, recursive \in BOOLEAN : DeleteFolder(p, recursive)
    \/ fsRes.n < MaxOps /\ \E p \in PathInputs : CreateFolder(p)
    \/ fsRes.n < MaxOps /\ \E p \in PathInputs, structure \in Structures : CreateProjectStructure(p, structure)
    \/ fsRes.n < MaxOps /\ \E p \in PathInputs : GetProjectStructure(p)
    \/ fsRes.n < MaxOps /\ \E p \in PathInputs : CreateCarouselProject(p)
    \/ fsRes.n < MaxOps /\ \E p \in PathInputs : ParseFileDirective(p)
    \/ fsRes.n < MaxOps /\ \E p \in PathInputs, structure \in Structures : ParseProjectDirective(p, structure)
    \/ fsRes.n < MaxOps /\ \E p \in PathInputs : ParseFolderDirective(p)

(***************************************************************************)
(* The allow-list gate: commands.run_command_async and                     *)
(* process_manager.start_process.  A command string is a sequence of       *)
(* one-character strings.                                                  *)
(***************************************************************************)
npm == <<"n", "p", "m">>
pnpm == <<"p", "n", "p", "m">>
yarn == <<"y", "a", "r", "n">>
npx == <<"n", "p", "x">>
pytest == <<"p", "y", "t", "e", "s", "t">>
pip == <<"p", "i", "p">>
python == <<"p", "y", "t", "h", "o", "n">>
node == <<"n", "o", "d", "e">>
serve == <<"s", "e", "r", "v", "e">>
http_server == <<"h", "t", "t", "p", "-", "s", "e", "r", "v", "e", "r">>
uvicorn == <<"u", "v", "i", "c", "o", "r", "n">>

\* commands._is_command_allowed: allowed_prefixes
allowed_prefixes == {npm, pnpm, yarn, npx, pytest, pip, python, node, serve, http_server}

\* process_manager._ALLOWED_PREFIXES
ALLOWED_PREFIXES == allowed_prefixes \cup {uvicorn}

\* str.lower() on the letters the commands are written with
LowerChar(c) ==
    CASE c = "N" -> "n" [] c = "P" -> "p" [] c = "M" -> "m" [] OTHER -> c

lower(s) == [k \in 1..Len(s) |-> LowerChar(s[k])]

IsSpace(c) == c = " "

RECURSIVE lstrip(_)
lstrip(s) == IF s # <<>> /\ IsSpace(Head(s)) THEN lstrip(Tail(s)) ELSE s

RECURSIVE rstrip(_)
rstrip(s) == IF s # <<>> /\ IsSpace(s[Len(s)]) THEN rstrip(SubSeq(s, 1, Len(s) - 1)) ELSE s

\* str.strip()
strip(s) == rstrip(lstrip(s))

RECURSIVE TakeWord(_)
TakeWord(s) == IF s = <<>> \/ IsSpace(Head(s)) THEN <<>> ELSE <<Head(s)>> \o TakeWord(Tail(s))

\* s.split()[0] for an s that is not blank
FirstOfSplit(s) == TakeWord(lstrip(s))

\* str.startswith
startswith(s, prefix) == Len(s) >= Len(prefix) /\ SubSeq(s, 1, Len(prefix)) = prefix

\* str.split(): the whitespace-delimited tokens, in order
RECURSIVE Tokens(_, _)
Tokens(cur, s) ==
    IF s = <<>> THEN (IF cur = <<>> THEN <<>> ELSE <<cur>>)
    ELSE IF IsSpace(Head(s)) THEN (IF cur = <<>> THEN <<>> ELSE <<cur>>) \o Tokens(<<>>, Tail(s))
    ELSE Tokens(Append(cur, Head(s)), Tail(s))

\* a faulty variant: any token of the command may carry the listed name
is_allowed_any_token(command) ==
    LET toks == Tokens(<<>>, lower(strip(command)))
    IN  \E k \in 1..Len(toks), q \in ALLOWED_PREFIXES : startswith(toks[k], q)

\* commands._is_command_allowed
is_command_allowed(command) ==
    LET cmd == lower(strip(command))
    IN  IF cmd = <<>> THEN FALSE
        ELSE LET first == FirstOfSplit(cmd)
             IN  \E q \in allowed_prefixes : first = q \/ startswith(first, q)

\* process_manager._is_allowed
is_allowed(command) ==
    LET cmd == lower(strip(command))
    IN  IF cmd = <<>> THEN FALSE
        ELSE LET first == FirstOfSplit(cmd)
             IN  \E q \in ALLOWED_PREFIXES : first = q \/ startswith(first, q)

RECURSIVE Segments(_, _)
\* the command list the shell reads: the pieces between ";"
Segments(cur, s) ==
    IF s = <<>> THEN <<cur>>
    ELSE IF Head(s) = ";" THEN <<cur>> \o Segments(<<>>, Tail(s))
    ELSE Segments(Append(cur, Head(s)), Tail(s))

\* asyncio.create_subprocess_shell(command): the programs `sh -c command`
\* runs, the first word of each command of the list; an empty command before
\* a ";" is a syntax error and nothing runs.
ShellPrograms(command) ==
    LET segs == Segments(<<>>, command)
        blank(k) == strip(segs[k]) = <<>>
    IN  IF \E k \in 1..(Len(segs) - 1) : blank(k) THEN {}
        ELSE {FirstOfSplit(segs[k]) : k \in {j \in 1..Len(segs) : ~blank(j)}}

\* the pieces the callers' commands are written with
Pieces == {npm, <<"N", "P", "M">>, uvicorn, <<" ">>, <<";">>, <<"x">>}

RECURSIVE Concat(_)
Concat(ps) == IF ps = <<>> THEN <<>> ELSE Head(ps) \o Concat(Tail(ps))

Commands == {Concat(ps) : ps \in SeqsUpTo(Pieces, MaxPieces)}

NotAllowedRun == "Command not allowed. Only test/build/dev commands are permitted."
NotAllowedStart == "Command not allowed for background execution"

InitCmd ==
    /\ registry = {}
    /\ last_pid = 0
    /\ cmdRes = [n |-> 0, fn |-> "none", command |-> <<>>, spawned |-> FALSE,
                 success |-> FALSE, error |-> "", programs |-> {}]

\* run_command_async(command) in the working directory; exit0: the child's
\* exit code was 0
RunCommandAsync(command, exit0) ==
    /\ cmdRes.n < MaxCalls
    /\ IF ~is_command_allowed(command)
       THEN cmdRes' = [n |-> cmdRes.n + 1, fn |-> "run_command_async", command |-> command,
                       spawned |-> FALSE, success |-> FALSE, error |-> NotAllowedRun,
                       programs |-> {}]
       ELSE cmdRes' = [n |-> cmdRes.n + 1, fn |-> "run_command_async", command |-> command,
                       spawned |-> TRUE, success |-> exit0, error |-> "",
                       programs |-> ShellPrograms(command)]
    /\ UNCHANGED <<registry, last_pid, execVars, fsVars, moreVars>>

\* start_process(command) in the working directory; the new id is the call's number
StartProcess(command) ==
    /\ cmdRes.n < MaxCalls
    /\ IF ~is_allowed(command)
       THEN /\ cmdRes' = [n |-> cmdRes.n + 1, fn |-> "start_process", command |-> command,
                          spawned |-> FALSE, success |-> FALSE, error |-> NotAllowedStart,
                          programs |-> {}]
            /\ UNCHANGED <<registry, last_pid>>
       ELSE /\ cmdRes' = [n |-> cmdRes.n + 1, fn |-> "start_process", command |-> command,
                          spawned |-> TRUE, success |-> TRUE, error |-> "",
                          programs |-> ShellPrograms(command)]
            /\ registry' = registry \cup {cmdRes.n + 1}
            /\ last_pid' = cmdRes.n + 1
    /\ UNCHANGED <<execVars, fsVars, moreVars>>

NextCmd ==
    \/ cmdRes.n < MaxCalls /\ \E command \in Commands, exit0 \in BOOLEAN :
                                 RunCommandAsync(command, exit0)
    \/ cmdRes.n < MaxCalls /\ \E command \in Commands : StartProcess(command)

(***************************************************************************)
(* main(): the interaction loop.  Prompt.ask blocks the event loop, so the  *)
(* project task takes steps only while main() is suspended at an await.    *)
(* A project task is [exec, st, cancel]: the StepExecutor instance that    *)
(* runs it, where it is (created, gather: its sub-step tasks are in        *)
(* flight, launch: after the gather, done / cancelled / failed), and       *)
(* whether Task.cancel() was called on its sub-step tasks.                 *)
(***************************************************************************)
PDone(t) == t.st \in {"done", "cancelled", "failed"}

\* `active_project_task and not active_project_task.done()`
IsRunning(active, tasks) == active # 0 /\ ~PDone(tasks[active])

\* "Cleanup finished background task" at the top of the loop
Cleanup(active, tasks) == IF active # 0 /\ PDone(tasks[active]) THEN 0 ELSE active

\* a faulty variant: a project task is started whatever is running
may_start_unchecked(active, tasks) == TRUE

\* the else branch of `if active_project_task and not active_project_task.done()`
may_start(active, tasks) == ~IsRunning(active, tasks)

\* step_executor.request_stop(): cancels the tasks in that instance's
\* _current_substep_tasks, the sub-step tasks of the gather it is in
StopOn(tasks, executor) ==
    [k \in DOMAIN tasks |->
        IF tasks[k].exec = executor /\ tasks[k].st = "gather"
        THEN [tasks[k] EXCEPT !.cancel = TRUE] ELSE tasks[k]]

NewProjectTask(executor) == [exec |-> executor, st |-> "created", cancel |-> FALSE]

Cmd(kind, running, refused, stop_all) ==
    [n |-> lastCmd.n + 1, kind |-> kind, running |-> running, refused |-> refused,
     stop_all |-> stop_all]

InitMain ==
    /\ mainPc = "prompt"
    /\ step_executor = 1
    /\ active_project_task = 0
    /\ project_tasks = <<>>
    /\ lastCmd = [n |-> 0, kind |-> "none", running |-> FALSE, refused |-> FALSE,
                  stop_all |-> FALSE]

AtPrompt == mainPc = "prompt" /\ lastCmd.n < MaxCmds

\* `stop` / `abort`
CmdStop ==
    /\ AtPrompt
    /\ IF IsRunning(active_project_task, project_tasks)
       THEN /\ project_tasks' = StopOn(project_tasks, step_executor)
            /\ mainPc' = "stop_await"
            /\ lastCmd' = Cmd("stop", TRUE, FALSE, FALSE)
            /\ UNCHANGED active_project_task
       ELSE /\ lastCmd' = Cmd("stop", FALSE, FALSE, FALSE)
            /\ active_project_task' = Cleanup(active_project_task, project_tasks)
            /\ UNCHANGED <<project_tasks, mainPc>>
    /\ UNCHANGED <<step_executor, exceptMain>>

\* `await active_project_task` returned: CancelledError is swallowed, any other
\* exception of the task leaves main(); then stop_all_processes
StopAwaited ==
    /\ mainPc = "stop_await"
    /\ PDone(project_tasks[active_project_task])
    /\ IF project_tasks[active_project_task].st = "failed"
       THEN /\ mainPc' = "crashed"
            /\ UNCHANGED <<active_project_task, lastCmd>>
       ELSE /\ mainPc' = "prompt"
            /\ active_project_task' = 0
            /\ lastCmd' = [lastCmd EXCEPT !.stop_all = TRUE]
    /\ UNCHANGED <<step_executor, project_tasks, exceptMain>>

\* `\`: the model / key menu; the components are built anew
CmdMenu ==
    /\ AtPrompt
    /\ step_executor < MaxExecutors
    /\ step_executor' = step_executor + 1
    /\ active_project_task' = Cleanup(active_project_task, project_tasks)
    /\ lastCmd' = Cmd("menu", IsRunning(active_project_task, project_tasks), FALSE, FALSE)
    /\ UNCHANGED <<mainPc, project_tasks, exceptMain>>

\* the project branch of `resume <id>` and of the dispatch after analyze_task
StartOrRefuse(kind) ==
    IF may_start(active_project_task, project_tasks)
    THEN /\ Len(project_tasks) < MaxTasks
         /\ project_tasks' = Append(project_tasks, NewProjectTask(step_executor))
         /\ active_project_task' = Len(project_tasks) + 1
         /\ lastCmd' = Cmd(kind, FALSE, FALSE, FALSE)
    ELSE /\ lastCmd' = Cmd(kind, TRUE, TRUE, FALSE)
         /\ UNCHANGED <<project_tasks, active_project_task>>

\* `resume <id>` of a stored project
CmdResume ==
    /\ AtPrompt
    /\ StartOrRefuse("resume")
    /\ UNCHANGED <<mainPc, step_executor, exceptMain>>

\* any other input: `await task_planner.analyze_task(user_input)`
CmdRequest ==
    /\ AtPrompt
    /\ mainPc' = "analyze"
    /\ lastCmd' = Cmd("request", IsRunning(active_project_task, project_tasks), FALSE, FALSE)
    /\ UNCHANGED <<step_executor, active_project_task, project_tasks, exceptMain>>

\* the analysis returned: project mode starts a task, conversation mode awaits
\* execute_simple_task
Dispatch(project) ==
    /\ mainPc = "analyze"
    /\ IF project
       THEN /\ StartOrRefuse("project")
            /\ mainPc' = "prompt"
       ELSE /\ mainPc' = "cmd_await"
            /\ UNCHANGED <<project_tasks, active_project_task, lastCmd>>
    /\ UNCHANGED <<step_executor, exceptMain>>

\* ps, logs, launch, kill, restart, stop-all, runbg: `await execute_safe_command_async(...)`
CmdAwait ==
    /\ AtPrompt
    /\ mainPc' = "cmd_await"
    /\ lastCmd' = Cmd("command", IsRunning(active_project_task, project_tasks), FALSE, FALSE)
    /\ UNCHANGED <<step_executor, active_project_task, project_tasks, exceptMain>>

AwaitReturned ==
    /\ mainPc = "cmd_await"
    /\ mainPc' = "prompt"
    /\ active_project_task' = Cleanup(active_project_task, project_tasks)
    /\ UNCHANGED <<step_executor, project_tasks, lastCmd, exceptMain>>

\* the event loop runs the project task k while main() is suspended
ProjectTaskStep(k, st1, st2) ==
    /\ mainPc \in {"stop_await", "cmd_await", "analyze"}
    /\ project_tasks[k].st = st1
    /\ project_tasks' = [project_tasks EXCEPT ![k].st = st2]
    /\ UNCHANGED <<mainPc, step_executor, active_project_task, lastCmd,
                   exceptMain>>

\* first scheduling up to `await asyncio.gather(*tasks)`
ProjectTaskRun(k) == ProjectTaskStep(k, "created", "gather")
\* the gather returned: saves, then the auto-launch await
ProjectTaskGathered(k) == ~project_tasks[k].cancel /\ ProjectTaskStep(k, "gather", "launch")
\* a cancelled sub-step task raised CancelledError into the gather
ProjectTaskCancelled(k) == project_tasks[k].cancel /\ ProjectTaskStep(k, "gather", "cancelled")
\* a sub-step task raised another exception into the gather
ProjectTaskFailed(k) == ~project_tasks[k].cancel /\ ProjectTaskStep(k, "gather", "failed")
ProjectTaskDone(k) == ProjectTaskStep(k, "launch", "done")

NextMain ==
    \/ CmdStop
    \/ StopAwaited
    \/ CmdMenu
    \/ CmdResume
    \/ CmdRequest
    \/ \E project \in BOOLEAN : Dispatch(project)
    \/ CmdAwait
    \/ AwaitReturned
    \/ \E k \in DOMAIN project_tasks : ProjectTaskRun(k)
    \/ \E k \in DOMAIN project_tasks : ProjectTaskGathered(k)
    \/ \E k \in DOMAIN project_tasks : ProjectTaskCancelled(k)
    \/ \E k \in DOMAIN project_tasks : ProjectTaskFailed(k)
    \/ \E k \in DOMAIN project_tasks : ProjectTaskDone(k)

(***************************************************************************)
(* commands.run_command_async after the gate and the cwd checks: the       *)
(* coroutine is at one of its awaits                                       *)
(*   spawn   create_subprocess_shell                                       *)
(*   wait    proc.wait() / wait_for(proc.wait(), timeout), then the gather *)
(*           of the stream readers                                         *)
(*   tgrace, tdrain   the TimeoutError handler: wait_for(proc.wait(), 2),  *)
(*                    gather of the readers                                *)
(*   cgrace, cdrain   the CancelledError handler, likewise                 *)
(* and ends in returned or raised (CancelledError).  The child may exit at *)
(* any moment; once it has exited the readers finish.                      *)
(***************************************************************************)
NoTimeout == -1
Timeouts == {NoTimeout, 0, 1}

\* `if timeout:`
timeout_armed(timeout) == timeout # NoTimeout /\ timeout # 0

RunAwaits == {"spawn", "wait", "tgrace", "tdrain", "cgrace", "cdrain"}

InitRun ==
    /\ runCall = [pc |-> "idle", timeout |-> NoTimeout, cancel |-> FALSE, cancels |-> 0,
                  deadlinePassed |-> FALSE, cancelledRunning |-> FALSE]
    /\ runProc = [st |-> "none", terminate |-> FALSE, kill |-> FALSE]
    /\ runRes = [success |-> FALSE, error |-> "", cancelled |-> FALSE, log |-> FALSE]

\* asyncio.create_task(run_command_async(command, timeout=timeout))
RunStart(timeout) ==
    /\ runCall.pc = "idle"
    /\ runCall' = [runCall EXCEPT !.pc = "spawn", !.timeout = timeout]
    /\ UNCHANGED <<runProc, runRes, exceptRun>>

\* create_subprocess_shell returned; the readers are started
RunSpawned ==
    /\ runCall.pc = "spawn" /\ ~runCall.cancel
    /\ runCall' = [runCall EXCEPT !.pc = "wait"]
    /\ runProc' = [runProc EXCEPT !.st = "running"]
    /\ UNCHANGED <<runRes, exceptRun>>

\* the child ends by itself or by a signal it was sent
RunChildExits ==
    /\ runProc.st = "running"
    /\ runProc' = [runProc EXCEPT !.st = "exited"]
    /\ UNCHANGED <<runCall, runRes, exceptRun>>

\* proc.wait() and the gather of the readers returned: result, log file, return
RunWaitDone(exit0) ==
    /\ runCall.pc = "wait" /\ ~runCall.cancel
    /\ runProc.st = "exited"
    /\ runCall' = [runCall EXCEPT !.pc = "returned"]
    /\ runRes' = [runRes EXCEPT !.success = exit0, !.log = TRUE]
    /\ UNCHANGED <<runProc, exceptRun>>

\* the timeout given by the caller runs out while the child is running; where
\* wait_for was used it raises TimeoutError and the handler sends terminate()
RunDeadline ==
    /\ runCall.pc = "wait" /\ ~runCall.cancel
    /\ runCall.timeout # NoTimeout /\ ~runCall.deadlinePassed
    /\ runProc.st = "running"
    /\ IF timeout_armed(runCall.timeout)
       THEN /\ runCall' = [runCall EXCEPT !.pc = "tgrace", !.deadlinePassed = TRUE]
            /\ runProc' = [runProc EXCEPT !.terminate = TRUE]
       ELSE /\ runCall' = [runCall EXCEPT !.deadlinePassed = TRUE]
            /\ UNCHANGED runProc
    /\ UNCHANGED <<runRes, exceptRun>>

\* wait_for(proc.wait(), timeout=2) in a handler: the child exited in time, or
\* the two seconds ran out and kill() is sent
RunGraceOver ==
    /\ runCall.pc \in {"tgrace", "cgrace"} /\ ~runCall.cancel
    /\ runCall' = [runCall EXCEPT !.pc = IF @ = "tgrace" THEN "tdrain" ELSE "cdrain"]
    /\ runProc' = IF runProc.st = "running" THEN [runProc EXCEPT !.kill = TRUE] ELSE runProc
    /\ UNCHANGED <<runRes, exceptRun>>

\* the TimeoutError handler after its gather: result, log file, return
RunTimedOut ==
    /\ runCall.pc = "tdrain" /\ ~runCall.cancel
    /\ runProc.st = "exited"
    /\ runCall' = [runCall EXCEPT !.pc = "returned"]
    /\ runRes' = [runRes EXCEPT !.success = FALSE, !.error = "Command timed out", !.log = TRUE]
    /\ UNCHANGED <<runProc, exceptRun>>

\* the CancelledError handler after its gather: result, log file, raise
RunCancelled ==
    /\ runCall.pc = "cdrain" /\ ~runCall.cancel
    /\ runProc.st = "exited"
    /\ runCall' = [runCall EXCEPT !.pc = "raised"]
    /\ runRes' = [runRes EXCEPT !.success = FALSE, !.cancelled = TRUE, !.log = TRUE]
    /\ UNCHANGED <<runProc, exceptRun>>

\* the caller calls task.cancel() while the coroutine is suspended
RunTaskCancel ==
    /\ runCall.pc \in RunAwaits
    /\ ~runCall.cancel
    /\ runCall.cancels < MaxCancels
    /\ runCall' = [runCall EXCEPT !.cancel = TRUE, !.cancels = @ + 1]
    /\ UNCHANGED <<runProc, runRes, exceptRun>>

\* CancelledError is thrown into the coroutine at its await: inside the inner
\* try the CancelledError handler starts (terminate()); before it, and inside
\* either handler, nothing catches it
RunCancelArrives ==
    /\ runCall.pc \in RunAwaits
    /\ runCall.cancel
    /\ IF runCall.pc = "wait"
       THEN /\ runCall' = [runCall EXCEPT !.pc = "cgrace", !.cancel = FALSE,
                                          !.cancelledRunning = runProc.st = "running"]
            /\ runProc' = IF runProc.st = "running"
                          THEN [runProc EXCEPT !.terminate = TRUE] ELSE runProc
       ELSE /\ runCall' = [runCall EXCEPT !.pc = "raised", !.cancel = FALSE,
                                          !.cancelledRunning = @ \/ runProc.st = "running"]
            /\ UNCHANGED runProc
    /\ UNCHANGED <<runRes, exceptRun>>

NextRun ==
    \/ \E timeout \in Timeouts : RunStart(timeout)
    \/ RunSpawned
    \/ RunChildExits
    \/ \E exit0 \in BOOLEAN : RunWaitDone(exit0)
    \/ RunDeadline
    \/ RunGraceOver
    \/ RunTimedOut
    \/ RunCancelled
    \/ RunTaskCancel
    \/ RunCancelArrives

(***************************************************************************)
(* commands.execute_safe_command and execute_safe_command_async.  The      *)
(* command function called with the caller's keyword arguments either      *)
(* returns its result dict, raises an Exception (a TypeError for arguments *)
(* it does not take, for one), or, being awaited, raises CancelledError.   *)
(***************************************************************************)
SyncCommands ==
    {"list_directory", "read_file", "write_file", "create_folder",
     "create_project_structure", "get_project_structure", "search_in_files",
     "create_carousel_project", "create_empty_file", "delete_file", "delete_folder"}

\* aSYNC_COMMANDS
AsyncCommands ==
    {"run_command", "run_command_bg", "stop_process", "restart_process",
     "list_processes", "tail_logs", "launch_auto", "stop_all_processes"}

CommandNames == SyncCommands \cup AsyncCommands \cup {"bogus"}

\* a faulty variant: the dispatcher has no except clause
catches_nothing(raised) == FALSE

\* `except Exception`: CancelledError is a BaseException and is not caught
catches(raised) == raised = "Exception"

\* what a dispatcher call gives its caller: an envelope, or the exception
Envelope(success, error) == [raised |-> "none", success |-> success, error |-> error]
Raises(exc) == [raised |-> exc, success |-> FALSE, error |-> ""]

\* behaviour: "ok" / "fail" (the function returned success true / false) or the
\* exception it raised
execute_safe_command(command_name, behaviour) ==
    IF command_name \notin SyncCommands THEN Envelope(FALSE, "Unknown command")
    ELSE IF behaviour \in {"ok", "fail"} THEN Envelope(behaviour = "ok", "")
    ELSE IF catches(behaviour) THEN Envelope(FALSE, "Command execution failed")
    ELSE Raises(behaviour)

execute_safe_command_async(command_name, behaviour) ==
    IF command_name \notin AsyncCommands THEN Envelope(FALSE, "Unknown async command")
    ELSE IF behaviour \in {"ok", "fail"} THEN Envelope(behaviour = "ok", "")
    ELSE IF behaviour = "CancelledError" THEN Raises(behaviour)
    ELSE IF catches(behaviour) THEN Envelope(FALSE, "Async command failed")
    ELSE Raises(behaviour)

InitSafe ==
    safeRes = [n |-> 0, fn |-> "none", name |-> "", behaviour |-> "", out |-> Envelope(FALSE, "")]

ExecuteSafeCommand(command_name, behaviour) ==
    /\ safeRes.n < MaxDispatch
    /\ safeRes' = [n |-> safeRes.n + 1, fn |-> "execute_safe_command",
                   name |-> command_name, behaviour |-> behaviour,
                   out |-> execute_safe_command(command_name, behaviour)]
    /\ UNCHANGED exceptSafe

ExecuteSafeCommandAsync(command_name, behaviour) ==
    /\ safeRes.n < MaxDispatch
    /\ safeRes' = [n |-> safeRes.n + 1, fn |-> "execute_safe_command_async",
                   name |-> command_name, behaviour |-> behaviour,
                   out |-> execute_safe_command_async(command_name, behaviour)]
    /\ UNCHANGED exceptSafe

NextSafe ==
    \/ \E command_name \in CommandNames, behaviour \in {"ok", "fail", "Exception"} :
          ExecuteSafeCommand(command_name, behaviour)
    \/ \E command_name \in CommandNames,
          behaviour \in {"ok", "fail", "Exception", "CancelledError"} :
          ExecuteSafeCommandAsync(command_name, behaviour)

(***************************************************************************)
(* ProjectState on its own: project ids as character strings, the id check *)
(* and the JSON file of each id.                                           *)
(***************************************************************************)
\* characters an id is made of here: two of the class [A-Za-z0-9_-], and
\* three outside it
IdChars == {"p", "-", "/", ".", "\n"}

IdStrings == UNION {[1..n -> IdChars] : n \in 0..MaxIdLen}

\* the character class [A-Za-z0-9_-]
in_class(c) == c \in {"p", "-"}

all_in_class(s) == \A i \in 1..Len(s) : in_class(s[i])

\* the pattern read as a whole-string match: one or more class characters
\* and nothing else
full_match(s) == Len(s) >= 1 /\ all_in_class(s)

\* re.match(r'^[A-Za-z0-9_-]+$', s): `$` matches at the end of the string and
\* also just before a newline that ends the string
re_match(s) ==
    \/ full_match(s)
    \/ /\ Len(s) >= 2
       /\ s[Len(s)] = "\n"
       /\ full_match(SubSeq(s, 1, Len(s) - 1))

\* project_dir in (project_dir / f"{id}.json").resolve().parents: the name
\* has one component, not "." and not "..", exactly when it has no separator
inside_project_dir(s) == \A i \in 1..Len(s) : s[i] # "/"

validate_project_id(project_id) ==
    IF ~re_match(project_id) THEN FALSE ELSE inside_project_dir(project_id)

\* the data saved: a dict with a string value and a number value
ProjectDatas == [status : {"in_progress", "completed"}, current_step : 0..1]

JsonDigits == <<"0", "1">>

\* json.dump: every value is written as text
json_dump(data) ==
    <<"{", "status", ":", "\"", data.status, "\"", ",",
      "current_step", ":", JsonDigits[data.current_step + 1], "}">>

\* json.load
json_load(text) ==
    [status |-> text[5],
     current_step |-> (CHOOSE n \in 0..1 : JsonDigits[n + 1] = text[10])]

NoFile == <<>>
NoData == [status |-> "None", current_step |-> 0]

\* the project directory is a set of <<project id, text>> pairs
PsGet(pairs, project_id, none) ==
    IF \E e \in pairs : e[1] = project_id
    THEN (CHOOSE e \in pairs : e[1] = project_id)[2]
    ELSE none

PsPut(pairs, project_id, value) ==
    {e \in pairs : e[1] # project_id} \cup {<<project_id, value>>}

InitPs ==
    /\ psFiles = {}
    /\ psSaved = {}
    /\ psRes = [n |-> 0, op |-> "none", id |-> <<>>, raised |-> "none",
                wrote |-> FALSE, value |-> NoData]

\* ProjectState.save_project
SaveProject(project_id, data) ==
    /\ psRes.n < MaxPsOps
    /\ IF ~validate_project_id(project_id)
       THEN /\ psRes' = [n |-> psRes.n + 1, op |-> "save_project", id |-> project_id,
                         raised |-> "ValueError", wrote |-> FALSE, value |-> NoData]
            /\ UNCHANGED <<psFiles, psSaved>>
       ELSE /\ psFiles' = PsPut(psFiles, project_id, json_dump(data))
            /\ psSaved' = PsPut(psSaved, project_id, data)
            /\ psRes' = [n |-> psRes.n + 1, op |-> "save_project", id |-> project_id,
                         raised |-> "none", wrote |-> TRUE, value |-> NoData]
    /\ UNCHANGED exceptPs

\* ProjectState.load_project
LoadProject(project_id) ==
    /\ psRes.n < MaxPsOps
    /\ psRes' = [n |-> psRes.n + 1, op |-> "load_project", id |-> project_id,
                 raised |-> "none", wrote |-> FALSE,
                 value |-> IF ~validate_project_id(project_id) THEN NoData
                           ELSE IF PsGet(psFiles, project_id, NoFile) # NoFile
                                THEN json_load(PsGet(psFiles, project_id, NoFile))
                                ELSE NoData]
    /\ UNCHANGED <<psFiles, psSaved>>
    /\ UNCHANGED exceptPs

NextPs ==
    \/ \E project_id \in IdStrings, data \in ProjectDatas : SaveProject(project_id, data)
    \/ \E project_id \in IdStrings : LoadProject(project_id)

(***************************************************************************)
(* process_manager: the registry entries and their status.  main() calls   *)
(* the functions one after the other; while it is suspended in the         *)
(* wait_for of stop_process the event loop runs the project task, whose    *)
(* sub-steps and auto-launch start processes of their own.  Ids are        *)
(* numbered in the order of registration.                                  *)
(***************************************************************************)
Pids == 1..MaxProcs

Registered == DOMAIN pmProcs

\* child: "running" (exits on SIGTERM), "stubborn" (ignores SIGTERM) or
\* "gone" (proc.returncode is set)
NewInfo(stubborn) ==
    [status |-> "running", child |-> IF stubborn THEN "stubborn" ELSE "running"]

IdleCall == [pc |-> "idle", op |-> "none", pid |-> 0, todo |-> <<>>, total |-> 0, running |-> 0]

NoPmRes == [op |-> "none", success |-> FALSE, pid |-> 0, status |-> "", count |-> 0,
            running |-> 0, processes |-> {}]

InitPm ==
    /\ pmProcs = <<>>
    /\ pmCall = IdleCall
    /\ pmRes = NoPmRes

\* list_processes: the items, here the id and the status of each
list_processes(procs) == {<<pid, procs[pid].status>> : pid \in DOMAIN procs}

\* start_process by main() (who = "main") or by the project task while main()
\* is suspended (who = "task")
PmStartProcess(who, command, stubborn) ==
    /\ \/ who = "main" /\ pmCall.pc = "idle"
       \/ who = "task" /\ pmCall.pc = "wait"
    /\ Len(pmProcs) < MaxProcs
    /\ IF ~is_allowed(command)
       THEN /\ pmProcs' = pmProcs
            /\ pmRes' = IF who = "main" THEN [NoPmRes EXCEPT !.op = "start_process"] ELSE pmRes
       ELSE /\ pmProcs' = Append(pmProcs, NewInfo(stubborn))
            /\ pmRes' = IF who = "main"
                        THEN [NoPmRes EXCEPT !.op = "start_process", !.success = TRUE,
                                             !.pid = Len(pmProcs) + 1]
                        ELSE pmRes
    /\ UNCHANGED pmCall
    /\ UNCHANGED exceptPm

\* the child of a registered process ends by itself; the entry is not touched
PmChildExits(pid) ==
    /\ pid \in Registered
    /\ pmProcs[pid].child # "gone"
    /\ pmProcs' = [pmProcs EXCEPT ![pid].child = "gone"]
    /\ UNCHANGED <<pmCall, pmRes>>
    /\ UNCHANGED exceptPm

PmListProcesses ==
    /\ pmCall.pc = "idle"
    /\ pmRes' = [NoPmRes EXCEPT !.op = "list_processes", !.success = TRUE,
                                !.processes = list_processes(pmProcs)]
    /\ UNCHANGED <<pmProcs, pmCall>>
    /\ UNCHANGED exceptPm

\* stop_process after its wait: exit_code is proc.returncode, None for a
\* child that had to be killed
stopped_status(child) == IF child = "stubborn" THEN "stopped" ELSE "exited"

Stopped(procs, pid) ==
    [procs EXCEPT ![pid] = [status |-> stopped_status(procs[pid].child), child |-> "gone"]]

RECURSIVE StopWhileDone(_, _)
\* stop_all_processes' loop from the ids still to stop: every stop_process
\* that needs no wait is done at once; the loop stops at the first id whose
\* child still runs (terminate is sent and wait_for suspends), or at the end
StopWhileDone(procs, todo) ==
    IF todo = <<>> THEN [procs |-> procs, todo |-> <<>>]
    ELSE IF procs[Head(todo)].child # "gone" THEN [procs |-> procs, todo |-> todo]
    ELSE StopWhileDone(Stopped(procs, Head(todo)), Tail(todo))

StopAllResult(call) ==
    [NoPmRes EXCEPT !.op = "stop_all_processes", !.success = TRUE,
                    !.count = call.total, !.running = call.running]

StopResult(procs, pid) ==
    [NoPmRes EXCEPT !.op = "stop_process", !.success = TRUE, !.pid = pid,
                    !.status = procs[pid].status]

\* stop_process(pid) called by main()
PmStopProcess(pid) ==
    /\ pmCall.pc = "idle"
    /\ IF pid \notin Registered
       THEN /\ pmRes' = [NoPmRes EXCEPT !.op = "stop_process", !.pid = pid]
            /\ UNCHANGED <<pmProcs, pmCall>>
       ELSE IF pmProcs[pid].child = "gone"
       THEN /\ pmProcs' = Stopped(pmProcs, pid)
            /\ pmRes' = StopResult(pmProcs', pid)
            /\ UNCHANGED pmCall
       ELSE /\ pmCall' = [IdleCall EXCEPT !.pc = "wait", !.op = "stop_process", !.pid = pid]
            /\ UNCHANGED <<pmProcs, pmRes>>
    /\ UNCHANGED exceptPm

\* stop_all_processes called by main(): the ids are listed once, at the call
PmStopAllProcesses ==
    /\ pmCall.pc = "idle"
    /\ LET keys == [i \in 1..Len(pmProcs) |-> i]
           call == [IdleCall EXCEPT !.op = "stop_all_processes", !.total = Len(pmProcs),
                      !.running = Cardinality({p \in Registered : pmProcs[p].status = "running"})]
           r == StopWhileDone(pmProcs, keys)
       IN  /\ pmProcs' = r.procs
           /\ IF r.todo = <<>>
              THEN /\ pmRes' = StopAllResult(call)
                   /\ UNCHANGED pmCall
              ELSE /\ pmCall' = [call EXCEPT !.pc = "wait", !.pid = Head(r.todo),
                                             !.todo = Tail(r.todo)]
                   /\ UNCHANGED pmRes
    /\ UNCHANGED exceptPm

\* the wait_for of stop_process returns or times out (then kill), the entry
\* is marked, and the caller goes on
PmWaitOver ==
    /\ pmCall.pc = "wait"
    /\ LET done == Stopped(pmProcs, pmCall.pid)
       IN  IF pmCall.op = "stop_process"
           THEN /\ pmProcs' = done
                /\ pmRes' = StopResult(done, pmCall.pid)
                /\ pmCall' = IdleCall
           ELSE LET r == StopWhileDone(done, pmCall.todo)
                IN  /\ pmProcs' = r.procs
                    /\ IF r.todo = <<>>
                       THEN /\ pmRes' = StopAllResult(pmCall)
                            /\ pmCall' = IdleCall
                       ELSE /\ pmCall' = [pmCall EXCEPT !.pid = Head(r.todo),
                                                        !.todo = Tail(r.todo)]
                            /\ UNCHANGED pmRes
    /\ UNCHANGED exceptPm

NextPm ==
    \/ \E who \in {"main", "task"}, command \in {npm, <<"x">>}, stubborn \in BOOLEAN :
          PmStartProcess(who, command, stubborn)
    \/ \E pid \in Pids : PmChildExits(pid)
    \/ PmListProcesses
    \/ \E pid \in Pids : PmStopProcess(pid)
    \/ PmStopAllProcesses
    \/ PmWaitOver

(***************************************************************************)
(* AIClient._send_remote_message and the KeyStore it reads.  A key is ""   *)
(* (None or empty), the user's stored key or the environment's key.        *)
(***************************************************************************)
NoKey == ""
UserKey == "sk-user"
EnvKey == "sk-env"

\* encrypted_api_key in the store file: absent, a token that decrypts, or
\* one that does not
\* KeyStore.use_user_key
use_user_key(ks) == ks.use_user_key

\* KeyStore.get_user_key: None without a token or when decrypt raises
get_user_key(ks) == IF ks.token = "valid" THEN UserKey ELSE NoKey

\* a faulty variant: the key store is never consulted
env_key_only(ks, env) == env

\* the key _send_remote_message ends up with
remote_key(ks, env) ==
    LET user_key == IF ks.configured
                    THEN IF use_user_key(ks) THEN get_user_key(ks) ELSE env
                    ELSE NoKey
    IN  IF user_key = NoKey /\ env # NoKey THEN env ELSE user_key

\* no client yet; the store file does not exist
InitAi ==
    /\ keyStore = [client |-> FALSE, configured |-> FALSE, use_user_key |-> FALSE,
                   token |-> "none"]
    /\ api_key = NoKey
    /\ aiRes = [n |-> 0, configured |-> FALSE, flag |-> FALSE, stored |-> NoKey,
                env |-> NoKey, posted |-> FALSE, credential |-> NoKey, reply |-> ""]

\* AIClient(model, key_manager): with or without a key store, and with the
\* key the environment holds
NewAIClient(key_manager, env) ==
    /\ ~keyStore.client
    /\ keyStore' = [keyStore EXCEPT !.client = TRUE, !.configured = key_manager]
    /\ api_key' = env
    /\ UNCHANGED aiRes
    /\ UNCHANGED exceptAi

\* the stored token stops decrypting: the key is derived from the host and
\* user names and the salt file
TokenUnreadable ==
    /\ keyStore.token = "valid"
    /\ keyStore' = [keyStore EXCEPT !.token = "corrupt"]
    /\ UNCHANGED <<api_key, aiRes>>
    /\ UNCHANGED exceptAi

\* KeyStore.set_user_key (the menu's "enter your own key")
SetUserKey ==
    /\ keyStore.configured
    /\ keyStore' = [keyStore EXCEPT !.token = "valid", !.use_user_key = TRUE]
    /\ UNCHANGED <<api_key, aiRes>>
    /\ UNCHANGED exceptAi

\* KeyStore.set_use_user_key
SetUseUserKey(value) ==
    /\ keyStore.configured
    /\ keyStore' = [keyStore EXCEPT !.use_user_key = value]
    /\ UNCHANGED <<api_key, aiRes>>
    /\ UNCHANGED exceptAi

\* _send_remote_message; http_ok: the POST came back with a completion
SendRemoteMessage(http_ok) ==
    /\ keyStore.client
    /\ aiRes.n < MaxSends
    /\ LET user_key == remote_key(keyStore, api_key)
           seen == [n |-> aiRes.n + 1, configured |-> keyStore.configured,
                    flag |-> keyStore.configured /\ use_user_key(keyStore),
                    stored |-> IF keyStore.configured THEN get_user_key(keyStore) ELSE NoKey,
                    env |-> api_key, posted |-> FALSE, credential |-> NoKey, reply |-> ""]
       IN  IF user_key = NoKey
           THEN aiRes' = seen
           ELSE aiRes' = [seen EXCEPT !.posted = TRUE, !.credential = user_key,
                                      !.reply = IF http_ok THEN "content" ELSE ""]
    /\ UNCHANGED <<keyStore, api_key>>
    /\ UNCHANGED exceptAi

NextAi ==
    \/ \E key_manager \in BOOLEAN, env \in {NoKey, EnvKey} : NewAIClient(key_manager, env)
    \/ TokenUnreadable
    \/ SetUserKey
    \/ \E value \in BOOLEAN : SetUseUserKey(value)
    \/ \E http_ok \in BOOLEAN : SendRemoteMessage(http_ok)


(***************************************************************************)
(* ResponseParser.parse_and_execute on a whole reply.  The reply is a      *)
(* sequence of tokens: the marker, the fence, words, "/", blank and        *)
(* newline.  The CREATE_FILE pattern is matched over the tokens the way    *)
(* re.finditer matches it over the characters.                            *)
(***************************************************************************)
MarkerTok == "CREATE_FILE:"
\* the three backquotes of a code fence
FenceTok == "fence"

\* \s
IsWs(tk) == tk \in {" ", "\n"}

\* \w+
IsWord(tk) == tk \in {"x", "py"}

\* what a block holds between its fences
BlockContents == SeqsUpTo({"x", " ", "\n", FenceTok}, MaxContent)

\* the paths a, f and a/b; the file f exists
BlockPaths == {<<"a">>, <<"f">>, <<"a", "b">>}

Blocks == [path : BlockPaths, tag : {"", "py"}, content : BlockContents]

RECURSIVE JoinPath(_)
JoinPath(parts) ==
    IF Len(parts) <= 1 THEN parts ELSE <<Head(parts), "/">> \o JoinPath(Tail(parts))

\* "CREATE_FILE: <path>", the opening fence with its language tag on the
\* next line, the content, the closing fence
BlockText(b) ==
    <<MarkerTok, " ">> \o JoinPath(b.path) \o <<"\n", FenceTok>>
        \o (IF b.tag = "" THEN <<>> ELSE <<b.tag>>) \o <<"\n">>
        \o b.content \o <<FenceTok, "\n">>

ReplyText(blocks) == Concat([i \in 1..Len(blocks) |-> BlockText(blocks[i])])

\* the first position from i on that is not white space (Len + 1 if none)
SkipWs(text, i) ==
    LET S == {j \in i..Len(text) : ~IsWs(text[j])}
    IN  IF S = {} THEN Len(text) + 1 ELSE CHOOSE j \in S : \A k \in S : j <= k

\* the first newline from i on (Len + 1 if none)
LineEnd(text, i) ==
    LET S == {j \in i..Len(text) : text[j] = "\n"}
    IN  IF S = {} THEN Len(text) + 1 ELSE CHOOSE j \in S : \A k \in S : j <= k

\* the first fence from i on (0 if none)
NextFence(text, i) ==
    LET S == {j \in i..Len(text) : text[j] = FenceTok}
    IN  IF S = {} THEN 0 ELSE CHOOSE j \in S : \A k \in S : j <= k

\* str.strip() on tokens
strip_ws(s) ==
    LET S == {j \in 1..Len(s) : ~IsWs(s[j])}
    IN  IF S = {} THEN <<>>
        ELSE SubSeq(s, CHOOSE j \in S : \A k \in S : j <= k,
                       CHOOSE j \in S : \A k \in S : j >= k)

NotSlash(tk) == tk # "/"

\* file_pattern tried at a marker at position i: white space, the rest of
\* the line (group 1), white space, a fence, a word if one follows at once,
\* white space, and everything up to the next fence (group 3); both groups
\* are stripped
MatchAt(text, i) ==
    LET j     == SkipWs(text, i + 1)
        e     == LineEnd(text, j)
        k     == SkipWs(text, e)
        t     == IF k + 1 <= Len(text) /\ IsWord(text[k + 1]) THEN k + 2 ELSE k + 1
        c     == SkipWs(text, t)
        close == NextFence(text, c)
    IN  IF e > j /\ k <= Len(text) /\ text[k] = FenceTok /\ close # 0
        THEN [ok |-> TRUE, next |-> close + 1,
              file_path |-> strip_ws(SubSeq(text, j, e - 1)),
              content |-> strip_ws(SubSeq(text, c, close - 1))]
        ELSE [ok |-> FALSE, next |-> i + 1, file_path |-> <<>>, content |-> <<>>]

RECURSIVE FindAll(_, _)
\* re.finditer: the matches from left to right, none overlapping
FindAll(text, i) ==
    IF i > Len(text) THEN <<>>
    ELSE IF text[i] # MarkerTok THEN FindAll(text, i + 1)
    ELSE LET m == MatchAt(text, i)
         IN  IF m.ok THEN <<m>> \o FindAll(text, m.next) ELSE FindAll(text, m.next)

NoResults == [n |-> 0, files_created |-> <<>>, operations |-> 0, errors |-> <<>>]

\* the body of the loop for one match: the diff against what exists, the
\* parent folder, the empty file, the content
CreateFileMatch(d, fl, res, m) ==
    LET p   == [abs |-> FALSE, parts |-> SelectSeq(m.file_path, NotSlash)]
        lk  == OsLookup(Cwd, p.parts, d, fl)
        e1  == IF lk.found /\ IsDir(d, lk.at) THEN <<"Diff error">> ELSE <<>>
        r1  == create_folder(d, fl, [abs |-> FALSE, parts |-> Parent(p.parts)])
        r2  == create_empty_file(r1.dirs, r1.files, p)
        e2  == IF ~r2.success THEN <<"Failed to pre-create">> ELSE <<>>
        r3  == write_file(r2.dirs, r2.files, p, m.content)
    IN  [dirs |-> r3.dirs, files |-> r3.files,
         res |-> IF r3.success
                 THEN [res EXCEPT !.files_created = Append(@, m.file_path),
                                  !.operations = @ + 1,
                                  !.errors = @ \o e1 \o e2]
                 ELSE [res EXCEPT !.errors = @ \o e1 \o e2 \o <<"Failed to write">>]]

RECURSIVE CreateFiles(_, _, _, _)
CreateFiles(d, fl, res, ms) ==
    IF ms = <<>> THEN [dirs |-> d, files |-> fl, res |-> res]
    ELSE LET r == CreateFileMatch(d, fl, res, Head(ms))
         IN  CreateFiles(r.dirs, r.files, r.res, Tail(ms))

\* the working directory /w holds the file f
InitParse ==
    /\ prReply = [blocks |-> <<>>, text |-> <<>>, parsed |-> TRUE]
    /\ prDirs = {<<>>, Cwd}
    /\ prFiles = {<<Append(Cwd, "f"), <<"x">>>>}
    /\ prRes = NoResults

\* the AI client returns a reply made of CREATE_FILE blocks
ReceiveReply(blocks) ==
    /\ prReply.parsed
    /\ prRes.n < MaxReplies
    /\ prReply' = [blocks |-> blocks, text |-> ReplyText(blocks), parsed |-> FALSE]
    /\ UNCHANGED <<prDirs, prFiles, prRes>>
    /\ UNCHANGED exceptParse

\* ResponseParser.parse_and_execute(response)
ParseAndExecute ==
    /\ ~prReply.parsed
    /\ LET r == CreateFiles(prDirs, prFiles, [NoResults EXCEPT !.n = prRes.n + 1],
                            FindAll(prReply.text, 1))
       IN  /\ prDirs' = r.dirs
           /\ prFiles' = r.files
           /\ prRes' = r.res
    /\ prReply' = [prReply EXCEPT !.parsed = TRUE]
    /\ UNCHANGED exceptParse

NextParse ==
    \/ prReply.parsed /\ prRes.n < MaxReplies /\
          \E blocks \in SeqsUpTo(Blocks, MaxBlocks) \ {<<>>} : ReceiveReply(blocks)
    \/ ParseAndExecute


(***************************************************************************)
(* create_folder and create_empty_file called again on the same path: the  *)
(* result dicts with their already_exists field, and the disk before and   *)
(* after each call.                                                        *)
(***************************************************************************)
\* a faulty variant: already_exists is never set
never_already_exists(d, fl, p) == FALSE

\* create_folder: already_exists is set when target_path.exists()
folder_already_exists(d, fl, p) ==
    Inside(Resolve(p)) /\ PathExists(d, fl, Resolve(p))

\* create_empty_file: already_exists is set when, the parent folders made,
\* target_path.exists()
file_already_exists(d, fl, p) ==
    LET t  == Resolve(p)
        mk == mkdir_parents(d, fl, Parent(t))
    IN  Inside(t) /\ mk.ok /\ PathExists(mk.dirs, fl, t)

NoCall == [n |-> 0, op |-> "none", p |-> [abs |-> FALSE, parts |-> <<>>],
           success |-> FALSE, already_exists |-> FALSE, inside |-> FALSE,
           existed |-> FALSE, blocked |-> FALSE, changed |-> FALSE]

\* the working directory /w holds the file f with content "old"
InitTwice ==
    /\ twDirs = {<<>>, Cwd}
    /\ twFiles = {<<Append(Cwd, "f"), "old">>}
    /\ twPrev = NoCall
    /\ twLast = NoCall

\* one call returned r; existed and blocked describe the disk it found: the
\* path existed, a file stands where a folder of the path has to be
TwDone(op, p, r, already) ==
    /\ twDirs' = r.dirs
    /\ twFiles' = r.files
    /\ twPrev' = twLast
    /\ twLast' = [n |-> twLast.n + 1, op |-> op, p |-> p, success |-> r.success,
                  already_exists |-> already, inside |-> Inside(Resolve(p)),
                  existed |-> PathExists(twDirs, twFiles, Resolve(p)),
                  blocked |-> \E a \in Ancestors(Parent(Resolve(p))) : IsFile(twFiles, a),
                  changed |-> r.dirs # twDirs \/ r.files # twFiles]
    /\ UNCHANGED exceptTwice

TwCreateFolder(p) ==
    TwDone("create_folder", p, create_folder(twDirs, twFiles, p),
           folder_already_exists(twDirs, twFiles, p))

TwCreateEmptyFile(p) ==
    TwDone("create_empty_file", p, create_empty_file(twDirs, twFiles, p),
           file_already_exists(twDirs, twFiles, p))

TwWriteFile(p) ==
    TwDone("write_file", p, write_file(twDirs, twFiles, p, "new"), FALSE)

NextTwice ==
    \/ twLast.n < MaxTwCalls /\ \E p \in PathInputs : TwCreateFolder(p)
    \/ twLast.n < MaxTwCalls /\ \E p \in PathInputs : TwCreateEmptyFile(p)
    \/ twLast.n < MaxTwCalls /\ \E p \in PathInputs : TwWriteFile(p)


(***************************************************************************)
(* thinking_python.break_down_task and StepExecutor._generate_substeps.    *)
(* A description is a sequence of words; a keyword is in the description   *)
(* when it is one of its words, lower-cased.                               *)
(***************************************************************************)
DescWords == {"Create", "build", "modify", "Update", "deploy", "fix", "paint"}

Descriptions == SeqsUpTo(DescWords, MaxWords)

LowerWord(w) == IF w = "Create" THEN "create" ELSE IF w = "Update" THEN "update" ELSE w

\* keyword in task_description.lower()
HasKeyword(description, keyword) ==
    \E i \in 1..Len(description) : LowerWord(description[i]) = keyword

CreatePlan ==
    <<"Plan the architecture and structure", "Set up the basic framework",
      "Implement core functionality", "Add error handling and validation",
      "Test and refine">>

ModifyPlan ==
    <<"Analyze current implementation", "Plan the modifications", "Implement changes",
      "Test modifications", "Verify and finalize">>

\* steps[:num_steps]
FirstN(steps, n) == SubSeq(steps, 1, Min(n, Len(steps)))

break_down_task(task_description, num_steps) ==
    LET steps == IF HasKeyword(task_description, "create")
                    \/ HasKeyword(task_description, "build")
                 THEN CreatePlan
                 ELSE IF HasKeyword(task_description, "modify")
                         \/ HasKeyword(task_description, "update")
                 THEN ModifyPlan
                 ELSE [i \in 1..num_steps |-> "Step"]
    IN  FirstN(steps, num_steps)

\* thinking_python.estimate_task_complexity: level and estimated_steps
estimate_task_complexity(task_description) ==
    IF \E k \in {"integrate", "deploy", "migrate", "refactor", "optimize", "scale"} :
          HasKeyword(task_description, k)
    THEN [level |-> "high", estimated_steps |-> 8]
    ELSE IF \E k \in {"create", "build", "develop", "implement", "modify"} :
               HasKeyword(task_description, k)
    THEN [level |-> "medium", estimated_steps |-> 5]
    ELSE IF \E k \in {"update", "fix", "change", "add", "remove"} :
               HasKeyword(task_description, k)
    THEN [level |-> "low", estimated_steps |-> 3]
    ELSE [level |-> "medium", estimated_steps |-> 5]

\* the number of sub-steps _generate_substeps asks for
SubstepsWanted(step_desc) ==
    LET complexity == estimate_task_complexity(step_desc)
    IN  Max(3, Min(8, complexity.estimated_steps
                        + (IF complexity.level = "high" THEN 2 ELSE 1)))

InitPlan ==
    bdRes = [n |-> 0, op |-> "none", description |-> <<>>, num_steps |-> 0, steps |-> <<>>]

BreakDownTask(task_description, num_steps) ==
    /\ bdRes.n < MaxPlans
    /\ bdRes' = [n |-> bdRes.n + 1, op |-> "break_down_task",
                 description |-> task_description, num_steps |-> num_steps,
                 steps |-> break_down_task(task_description, num_steps)]
    /\ UNCHANGED exceptPlan

\* StepExecutor._generate_substeps(step_desc); the list keeps its length when
\* it is normalised
GenerateSubsteps(step_desc) ==
    /\ bdRes.n < MaxPlans
    /\ bdRes' = [n |-> bdRes.n + 1, op |-> "_generate_substeps",
                 description |-> step_desc, num_steps |-> SubstepsWanted(step_desc),
                 steps |-> break_down_task(step_desc, SubstepsWanted(step_desc))]
    /\ UNCHANGED exceptPlan

NextPlan ==
    \/ \E task_description \in Descriptions, num_steps \in 0..MaxNumSteps :
          BreakDownTask(task_description, num_steps)
    \/ \E step_desc \in Descriptions : GenerateSubsteps(step_desc)


(***************************************************************************)
(* thinking_python.prevent_hallucination_in_long_tasks.  A context is a    *)
(* sequence of characters.                                                 *)
(***************************************************************************)
HeaderLines == 10

TruncationBuffer == 100

DefaultMaxContextLength == 8000

\* "\n\n[... earlier steps truncated for brevity ...]\n\n"
TruncationMarker ==
    <<"[", ".", ".", ".", " ", "e", "a", "r", "l", "i", "e", "r", " ", "s", "t", "e",
      "p", "s", " ", "t", "r", "u", "n", "c", "a", "t", "e", "d", " ", "f", "o", "r",
      " ", "b", "r", "e", "v", "i", "t", "y", " ", ".", ".", ".", "]">>

MarkerBlock == <<"\n", "\n">> \o TruncationMarker \o <<"\n", "\n">>

\* context.split('\n')
split_lines(s) ==
    LET nl     == {i \in 1..Len(s) : s[i] = "\n"}
        nth(k) == IF k = 0 THEN 0
                  ELSE IF k > Cardinality(nl) THEN Len(s) + 1
                  ELSE CHOOSE p \in nl : Cardinality({q \in nl : q <= p}) = k
    IN  [k \in 1..(Cardinality(nl) + 1) |-> SubSeq(s, nth(k - 1) + 1, nth(k) - 1)]

\* '\n'.join(lines)
RECURSIVE join_lines(_)
join_lines(lines) ==
    IF lines = <<>> THEN <<>>
    ELSE IF Len(lines) = 1 THEN lines[1]
    ELSE lines[1] \o <<"\n">> \o join_lines(Tail(lines))

\* s[:n]
py_prefix(s, n) ==
    IF n >= 0 THEN SubSeq(s, 1, Min(n, Len(s))) ELSE SubSeq(s, 1, Max(0, Len(s) + n))

\* s[-n:] for n > 0
py_suffix(s, n) == IF n >= Len(s) THEN s ELSE SubSeq(s, Len(s) - n + 1, Len(s))

\* '\n'.join(lines[:10])
header_of(context) == join_lines(py_prefix(split_lines(context), HeaderLines))

\* a faulty variant: no buffer is set aside
remaining_space_no_buffer(header, max_context_length) ==
    max_context_length - Len(header)

remaining_space(header, max_context_length) ==
    max_context_length - Len(header) - TruncationBuffer

prevent_hallucination_in_long_tasks(context, max_context_length) ==
    IF Len(context) <= max_context_length THEN context
    ELSE LET header == header_of(context)
             space  == remaining_space(header, max_context_length)
         IN  IF space > 0
             THEN header \o MarkerBlock \o py_suffix(context, space)
             ELSE py_prefix(header, max_context_length)

\* the contexts tried: lines of one letter each, the first HeaderLines lines
\* of one length and the later lines of another
LineLetter(i) == <<"a", "b", "c">>[(i % 3) + 1]

TextLine(i, len) == [k \in 1..len |-> LineLetter(i)]

ContextOf(n, headLen, tailLen) ==
    join_lines([i \in 1..n |-> TextLine(i, IF i <= HeaderLines THEN headLen ELSE tailLen)])

LineCounts == {1, 3, MaxLines - 1, MaxLines}

HeadLens == {0, 5, MaxLineLen}

TailLens == {5, 5 * MaxLineLen}

MaxContextLengths == {0, 10, 60, 150, 250, DefaultMaxContextLength}

InitTrim ==
    trimRes = [n |-> 0, context |-> <<>>, max_context_length |-> 0, result |-> <<>>]

PreventHallucination(context, max_context_length) ==
    /\ trimRes.n < MaxTrims
    /\ trimRes' = [n |-> trimRes.n + 1, context |-> context,
                   max_context_length |-> max_context_length,
                   result |-> prevent_hallucination_in_long_tasks(context,
                                                                  max_context_length)]
    /\ UNCHANGED exceptTrim

NextTrim ==
    \E n \in LineCounts, headLen \in HeadLens, tailLen \in TailLens,
       max_context_length \in MaxContextLengths :
          PreventHallucination(ContextOf(n, headLen, tailLen), max_context_length)


(***************************************************************************)
(* process_manager._find_available_port.  The ports other listeners hold   *)
(* on 127.0.0.1 are a set; binding a port succeeds when no listener holds  *)
(* it.                                                                     *)
(***************************************************************************)
FirstStaticPort == 8000

\* the ports a listener can hold, and the ranges probed
ProbedPorts == FirstStaticPort..(FirstStaticPort + MaxPortSpan + 1)

RangeStarts == {FirstStaticPort, FirstStaticPort + 1}

NoPort == -1

\* s.bind(("127.0.0.1", p)) raises OSError when a listener holds p
bind_ok(p, bound) == p \notin bound

\* for p in range(start, end + 1): the first port that binds
RECURSIVE first_bindable(_, _, _)
first_bindable(p, end, bound) ==
    IF p > end THEN NoPort
    ELSE IF bind_ok(p, bound) THEN p
    ELSE first_bindable(p + 1, end, bound)

_find_available_port(start, end, bound) ==
    LET p == first_bindable(start, end, bound)
    IN  IF p # NoPort THEN p ELSE start

InitPort ==
    portRes = [n |-> 0, start |-> FirstStaticPort, end |-> FirstStaticPort,
               bound |-> {}, port |-> NoPort]

FindAvailablePort(start, end, bound) ==
    /\ portRes.n < MaxProbes
    /\ portRes' = [n |-> portRes.n + 1, start |-> start, end |-> end, bound |-> bound,
                   port |-> _find_available_port(start, end, bound)]
    /\ UNCHANGED exceptPort

NextPort ==
    \E start \in RangeStarts, span \in 0..MaxPortSpan, bound \in SUBSET ProbedPorts :
        FindAvailablePort(start, start + span, bound)


(***************************************************************************)
(* key_store.KeyStore.  A key is a sequence of characters, a byte is a     *)
(* number in 0..3, and the store file holds one record.                    *)
(***************************************************************************)
KeyChars == {"s", "k", "-"}

ApiKeys == SeqsUpTo(KeyChars, MaxKeyLen)

\* str.encode("utf-8") and bytes.decode("utf-8"), one character at a time;
\* byte 0 is no character of a key
utf8_byte(c) == IF c = "s" THEN 1 ELSE IF c = "k" THEN 2 ELSE 3

utf8_char(b) == IF b = 1 THEN "s" ELSE IF b = 2 THEN "k" ELSE "-"

\* b ^ k on bytes of two bits
xor_byte(b, k) ==
    (((b % 2) + (k % 2)) % 2) + 2 * (((b \div 2) + (k \div 2)) % 2)

\* KeyStore._derive_key: the digest of machine, user and salt, the same at
\* every call
DerivedKey == <<3, 1>>

_xor(data, key) ==
    [i \in 1..Len(data) |-> xor_byte(data[i], key[((i - 1) % Len(key)) + 1])]

\* base64.b64encode / b64decode: one letter for each byte
b64_letter(b) == <<"A", "B", "C", "D">>[b + 1]

b64_byte(c) == IF c = "A" THEN 0 ELSE IF c = "B" THEN 1 ELSE IF c = "C" THEN 2 ELSE 3

encrypt(plain_text) ==
    LET raw == [i \in 1..Len(plain_text) |-> utf8_byte(plain_text[i])]
        x   == _xor(raw, DerivedKey)
    IN  [i \in 1..Len(x) |-> b64_letter(x[i])]

\* a faulty variant: the bytes are decoded as they are stored
decrypt_without_xor(token) ==
    LET raw == [i \in 1..Len(token) |-> b64_byte(token[i])]
    IN  IF \E i \in 1..Len(raw) : raw[i] = 0 THEN [raised |-> TRUE, text |-> <<>>]
        ELSE [raised |-> FALSE, text |-> [i \in 1..Len(raw) |-> utf8_char(raw[i])]]

\* x.decode("utf-8") raises on a byte that is no character
decrypt(token) ==
    LET raw == [i \in 1..Len(token) |-> b64_byte(token[i])]
        x   == _xor(raw, DerivedKey)
    IN  IF \E i \in 1..Len(x) : x[i] = 0 THEN [raised |-> TRUE, text |-> <<>>]
        ELSE [raised |-> FALSE, text |-> [i \in 1..Len(x) |-> utf8_char(x[i])]]

\* the record; {} has no field: no provider, no token, no flag (read as
\* false), no time
NoToken == <<"absent">>

EmptyRecord ==
    [provider |-> "absent", encrypted_api_key |-> NoToken, use_user_key |-> "absent",
     updated_at |-> -1]

\* json.dump of a bool
json_bool(value) == IF value THEN "true" ELSE "false"

NoneKey == <<"None">>

\* KeyStore.get_user_key
ks_get_user_key(data) ==
    LET token == data.encrypted_api_key
    IN  IF token = NoToken \/ token = <<>> THEN NoneKey
        ELSE IF decrypt(token).raised THEN NoneKey
        ELSE decrypt(token).text

\* KeyStore.use_user_key: bool(data.get("use_user_key", False))
ks_use_user_key(data) == data.use_user_key = "true"

\* KeyStore.has_user_key
ks_has_user_key(data) ==
    data.encrypted_api_key # NoToken /\ data.encrypted_api_key # <<>>

InitKey ==
    /\ ksStore = EmptyRecord
    /\ ksNow = 0
    /\ ksRes = [n |-> 0, op |-> "none", key |-> <<>>, value |-> FALSE, raised |-> FALSE,
                at |-> 0, before |-> EmptyRecord, last_key |-> NoneKey]

\* time passes between two calls
KsClockTick ==
    /\ ksNow < MaxClock
    /\ ksNow' = ksNow + 1
    /\ UNCHANGED <<ksStore, ksRes>>
    /\ UNCHANGED exceptKey

\* KeyStore.set_user_key(api_key), the key called user_key here
KsSetUserKey(user_key) ==
    /\ ksRes.n < MaxKeyOps
    /\ IF user_key = <<>>
       THEN /\ ksStore' = ksStore
            /\ ksRes' = [ksRes EXCEPT !.n = @ + 1, !.op = "set_user_key", !.key = user_key,
                                      !.raised = TRUE, !.at = ksNow, !.before = ksStore]
       ELSE /\ ksStore' = [provider |-> "openrouter",
                           encrypted_api_key |-> encrypt(user_key),
                           use_user_key |-> json_bool(TRUE),
                           updated_at |-> ksNow]
            /\ ksRes' = [ksRes EXCEPT !.n = @ + 1, !.op = "set_user_key", !.key = user_key,
                                      !.raised = FALSE, !.at = ksNow,
                                      !.before = ksStore, !.last_key = user_key]
    /\ UNCHANGED ksNow
    /\ UNCHANGED exceptKey

\* KeyStore.set_use_user_key(value)
KsSetUseUserKey(value) ==
    /\ ksRes.n < MaxKeyOps
    /\ ksStore' = [ksStore EXCEPT !.use_user_key = json_bool(value), !.updated_at = ksNow]
    /\ ksRes' = [ksRes EXCEPT !.n = @ + 1, !.op = "set_use_user_key", !.value = value,
                              !.raised = FALSE, !.at = ksNow, !.before = ksStore]
    /\ UNCHANGED ksNow
    /\ UNCHANGED exceptKey

NextKey ==
    \/ KsClockTick
    \/ \E user_key \in ApiKeys : KsSetUserKey(user_key)
    \/ \E value \in BOOLEAN : KsSetUseUserKey(value)


(***************************************************************************)
(* The progress execute_complex_task and _run_substep persist, for one     *)
(* project whose runs follow each other: a run starts when the tasks of    *)
(* the run before it have ended or the process has died.  The permission   *)
(* is granted and max_concurrency is the default.                          *)
(***************************************************************************)
PgIdle == [st |-> "none", steps |-> 0, start |-> 0, startSub |-> 0, i |-> 0, n |-> 0,
           smap |-> EmptyMap, gexc |-> "none", afterCrash |-> FALSE]

NoCancel == [j |-> 0, i |-> 0, alone |-> FALSE, saved |-> NoRecord]

NoHist == [runs |-> 0, executed |-> {}, completed |-> {}, beforeCrash |-> {},
           crashed |-> FALSE, between |-> FALSE, redo |-> {}, saves |-> <<>>,
           cancel |-> NoCancel]

PgLive(j) == pgSubs[j].st \in {"wait", "running"}

PgLiveSubs == {j \in DOMAIN pgSubs : PgLive(j)}

\* a faulty variant: the step-level save keeps the local current_substep
after_gather_unchanged(current_substep, n) == current_substep

\* `if tasks: await asyncio.gather(*tasks); current_substep = len(substeps)`
after_gather(current_substep, n) == IF n > 0 THEN n ELSE current_substep

InitProg ==
    /\ pgStore = NoRecord
    /\ pgRun = PgIdle
    /\ pgSubs = <<>>
    /\ pgHist = NoHist

\* execute_complex_task(..., steps, project_id) up to `await asyncio.gather`:
\* load, initial save, the for loop, sub-step generation with its save, and
\* the creation of one task for every sub-step of step i.
\* nsub: len(_generate_substeps())
PgStart(steps, nsub) ==
    /\ pgRun.st # "gather"
    /\ PgLiveSubs = {}
    /\ pgHist.runs < MaxPgRuns
    /\ pgStore.status # "absent" => steps = pgStore.steps
    /\ LET has      == pgStore.status # "absent"
           smap0    == IF has THEN pgStore.substeps_map ELSE EmptyMap
           start    == IF has THEN pgStore.current_step ELSE 0
           startSub == IF has THEN pgStore.current_substep ELSE 0
           i        == StepAfterLoop(start, steps)
           gen      == smap0[i] = 0
           smap     == IF gen THEN [smap0 EXCEPT ![i] = nsub] ELSE smap0
       IN  /\ ~gen => nsub = 1
           /\ IF LoopRangeEmpty(start, steps)
              THEN \* str(i) with i unbound: only the initial save happened
                   /\ nsub = 1
                   /\ pgStore' = ProjectData("in_progress", start, startSub, TRUE, steps, smap0)
                   /\ pgRun' = [PgIdle EXCEPT !.st = "failed", !.steps = steps,
                                              !.start = start, !.startSub = startSub,
                                              !.smap = smap0, !.afterCrash = pgHist.crashed]
                   /\ pgSubs' = <<>>
              ELSE /\ pgStore' = ProjectData("in_progress", start, startSub, TRUE, steps, smap)
                   /\ pgRun' = [PgIdle EXCEPT !.st = "gather", !.steps = steps,
                                              !.start = start, !.startSub = startSub,
                                              !.i = i, !.n = smap[i], !.smap = smap,
                                              !.afterCrash = pgHist.crashed]
                   /\ pgSubs' = [j \in 1..smap[i] |-> [st |-> "wait", cancel |-> FALSE]]
    /\ pgHist' = [pgHist EXCEPT !.runs = @ + 1, !.saves = <<>>, !.cancel = NoCancel,
                                !.crashed = FALSE]
    /\ UNCHANGED exceptProg

\* `from thinking_python import ..., classify_defects` fails: ImportError
PgImportFail(j) ==
    /\ pgRun.st \in {"gather", "failed", "cancelled"}
    /\ j \in DOMAIN pgSubs
    /\ pgSubs[j].st = "wait"
    /\ ~helperDefined
    /\ pgSubs' = [pgSubs EXCEPT ![j].st = "failed"]
    /\ pgRun' = IF pgRun.st = "gather" /\ pgRun.gexc = "none"
                THEN [pgRun EXCEPT !.gexc = "exc"] ELSE pgRun
    /\ UNCHANGED <<pgStore, pgHist>>
    /\ UNCHANGED exceptProg

\* `async with self._substep_sem` (FIFO), then the sub-step runs: the AI call,
\* the parsing and the directives
PgAcquire(j) ==
    /\ j \in DOMAIN pgSubs
    /\ pgSubs[j].st = "wait"
    /\ helperDefined
    /\ ~pgSubs[j].cancel
    /\ Cardinality({k \in DOMAIN pgSubs : pgSubs[k].st = "running"}) < DefaultConcurrency
    /\ \A k \in 1..(j - 1) : pgSubs[k].st # "wait"
    /\ pgSubs' = [pgSubs EXCEPT ![j].st = "running"]
    /\ pgHist' = IF pgRun.afterCrash /\ <<pgRun.i, j>> \in pgHist.beforeCrash
                 THEN [pgHist EXCEPT !.redo = @ \cup {<<pgRun.i, j>>}]
                 ELSE pgHist
    /\ UNCHANGED <<pgStore, pgRun>>
    /\ UNCHANGED exceptProg

\* "Mark sub-step complete immediately": current_substep = j, save with
\* current_step = i - 1 and status in_progress
PgSubComplete(j) ==
    /\ j \in DOMAIN pgSubs
    /\ pgSubs[j].st = "running"
    /\ ~pgSubs[j].cancel
    /\ pgStore' = ProjectData("in_progress", pgRun.i - 1, j, TRUE, pgRun.steps, pgRun.smap)
    /\ pgSubs' = [pgSubs EXCEPT ![j].st = "ok"]
    /\ pgHist' = [pgHist EXCEPT !.completed = @ \cup {<<pgRun.i, j>>},
                                !.saves = Append(@, j)]
    /\ UNCHANGED pgRun
    /\ UNCHANGED exceptProg

\* the AI reply is empty: parse_results is unbound at the summary line
PgSubFail(j) ==
    /\ j \in DOMAIN pgSubs
    /\ pgSubs[j].st = "running"
    /\ ~pgSubs[j].cancel
    /\ pgSubs' = [pgSubs EXCEPT ![j].st = "failed"]
    /\ pgRun' = IF pgRun.st = "gather" /\ pgRun.gexc = "none"
                THEN [pgRun EXCEPT !.gexc = "exc"] ELSE pgRun
    /\ UNCHANGED <<pgStore, pgHist>>
    /\ UNCHANGED exceptProg

\* StepExecutor.request_stop: cancel every task of _current_substep_tasks
\* that is not done
PgRequestStop ==
    /\ PgLiveSubs # {}
    /\ pgSubs' = [j \in DOMAIN pgSubs |->
                     IF PgLive(j) THEN [pgSubs[j] EXCEPT !.cancel = TRUE] ELSE pgSubs[j]]
    /\ UNCHANGED <<pgStore, pgRun, pgHist>>
    /\ UNCHANGED exceptProg

\* the record _run_substep saves in `except asyncio.CancelledError`
CancelledData(i, j, steps, smap) ==
    ProjectData("stopped", i - 1, Max(0, j - 1), TRUE, steps, smap)

\* Task.cancel() takes effect: while the task waits for the semaphore nothing
\* is saved; while the sub-step runs the handler saves and re-raises
PgCancelDeliver(j) ==
    /\ j \in DOMAIN pgSubs
    /\ PgLive(j)
    /\ pgSubs[j].cancel
    /\ pgSubs' = [pgSubs EXCEPT ![j].st = "cancelled", ![j].cancel = FALSE]
    /\ pgRun' = IF pgRun.st = "gather" /\ pgRun.gexc = "none"
                THEN [pgRun EXCEPT !.gexc = "cancel"] ELSE pgRun
    /\ IF pgSubs[j].st = "running"
       THEN LET data == CancelledData(pgRun.i, j, pgRun.steps, pgRun.smap)
            IN  /\ pgStore' = data
                /\ pgHist' = [pgHist EXCEPT
                                 !.saves = Append(@, data.current_substep),
                                 !.cancel = [j |-> j, i |-> pgRun.i,
                                             alone |-> PgLiveSubs = {j},
                                             saved |-> data]]
       ELSE UNCHANGED <<pgStore, pgHist>>
    /\ UNCHANGED exceptProg

\* asyncio.gather returned: the step-level save (current_step = i), then the
\* finalization save (status = completed)
PgGatherOk ==
    /\ pgRun.st = "gather"
    /\ pgRun.gexc = "none"
    /\ \A j \in DOMAIN pgSubs : pgSubs[j].st = "ok"
    /\ pgStore' = ProjectData("completed", pgRun.i, after_gather(0, pgRun.n), TRUE,
                              pgRun.steps, pgRun.smap)
    /\ pgRun' = [pgRun EXCEPT !.st = "done"]
    /\ pgHist' = [pgHist EXCEPT !.executed = @ \cup {pgRun.i}]
    /\ UNCHANGED pgSubs
    /\ UNCHANGED exceptProg

\* asyncio.gather raised what the first failing sub-step task raised; on
\* CancelledError project_data, as the initial save left it, is saved with
\* status stopped
PgGatherRaise ==
    /\ pgRun.st = "gather"
    /\ pgRun.gexc # "none"
    /\ IF pgRun.gexc = "cancel"
       THEN /\ pgStore' = ProjectData("stopped", pgRun.start, pgRun.startSub, TRUE,
                                      pgRun.steps, pgRun.smap)
            /\ pgRun' = [pgRun EXCEPT !.st = "cancelled"]
       ELSE /\ pgStore' = pgStore
            /\ pgRun' = [pgRun EXCEPT !.st = "failed"]
    /\ UNCHANGED <<pgSubs, pgHist>>
    /\ UNCHANGED exceptProg

\* the process dies while the call is at the gather: every task is gone, the
\* stored record stays.  It dies between two sub-step completions when a
\* sub-step of the step has completed and another has not.
PgCrash ==
    /\ pgRun.st = "gather"
    /\ pgRun' = [PgIdle EXCEPT !.st = "dead"]
    /\ pgSubs' = <<>>
    /\ pgHist' = [pgHist EXCEPT
                     !.crashed = TRUE,
                     !.beforeCrash = pgHist.completed,
                     !.between = /\ \E j \in DOMAIN pgSubs : pgSubs[j].st = "ok"
                                 /\ \E j \in DOMAIN pgSubs : PgLive(j)]
    /\ UNCHANGED pgStore
    /\ UNCHANGED exceptProg

NextProg ==
    \/ \E steps \in 1..MaxSteps, nsub \in 1..MaxPgSubsteps : PgStart(steps, nsub)
    \/ \E j \in 1..MaxPgSubsteps :
          \/ PgImportFail(j)
          \/ PgAcquire(j)
          \/ PgSubComplete(j)
          \/ PgSubFail(j)
          \/ PgCancelDeliver(j)
    \/ PgRequestStop
    \/ PgGatherOk
    \/ PgGatherRaise
    \/ PgCrash


(***************************************************************************)
(* process_manager: start_process, stop_process, restart_process and       *)
(* launch_auto on the registry, and the finalization of                    *)
(* execute_complex_task, which saves status=completed and then calls       *)
(* launch_auto.  An entry's id is its position in bgProcs (uuid4 ids are   *)
(* taken as fresh).  A command line is a sequence of characters; the       *)
(* static server's "python -m http.server <port>" is written "python <d>", *)
(* d the port's offset from 8000.  What the environment does to a start    *)
(* is an input of the step: "ok", or "badcwd" (the cwd is not a directory  *)
(* any more; create_subprocess_shell raising ends the same way).           *)
(***************************************************************************)
BgPids == 1..(MaxBgProcs + 1)

StartEnvs == {"ok", "badcwd"}

\* Path(cwd).resolve() on the directories the callers pass
resolve(cwd) == IF cwd = "/w/." THEN "/w" ELSE cwd

\* the arguments start_process is called with
StartArgs ==
    {[command |-> npm, cwd |-> "/w/.", name |-> "srv", project_id |-> "p1"],
     [command |-> <<"x">>, cwd |-> "/w", name |-> "", project_id |-> ""]}

NoStartRes == [success |-> FALSE, pid |-> 0, command |-> <<>>, cwd |-> "", error |-> ""]

\* start_process: the registry, _LAST_PID and the result dict after it
start_process(procs, last, command, cwd, name, project_id, env) ==
    LET workdir == resolve(cwd)
        result  == [NoStartRes EXCEPT !.command = command, !.cwd = workdir]
        failed(error) == [procs |-> procs, last |-> last,
                          res |-> [result EXCEPT !.error = error]]
    IN  IF ~is_allowed(command) THEN failed(NotAllowedStart)
        ELSE IF env = "badcwd" THEN failed("Invalid cwd")
        ELSE LET pid  == Len(procs) + 1
                 info == [command |-> command, cwd |-> workdir,
                          name |-> IF name = "" THEN "process" ELSE name,
                          project_id |-> project_id,
                          status |-> "running", child |-> "running"]
             IN  [procs |-> Append(procs, info), last |-> pid,
                  res |-> [result EXCEPT !.success = TRUE, !.pid = pid]]

\* a faulty variant: the entry is left as it was
stop_mark_nothing(procs, pid, killed) == procs

\* stop_process from `info["ended_at"] = ...`: the entry after the wait;
\* killed: wait_for timed out and kill() was sent, so returncode is still None
stop_mark(procs, pid, killed) ==
    [procs EXCEPT ![pid].status = IF killed THEN "stopped" ELSE "exited",
                  ![pid].child = "gone"]

\* detect_project_type: what the files of the directory make it
ProjectTypes == {"none", "node-server", "static", "unreadable"}

StaticCommand(port) ==
    python \o <<" ">> \o <<IF port = FirstStaticPort THEN "0" ELSE "1">>

detect_project_type(ptype, bound) ==
    CASE ptype = "node-server" -> [type |-> ptype, command |-> node \o <<" ", "s">>]
      [] ptype = "static" ->
            [type |-> ptype,
             command |-> StaticCommand(_find_available_port(FirstStaticPort,
                                                            FirstStaticPort + 1, bound))]
      [] OTHER -> [type |-> "none", command |-> <<>>]

\* a faulty variant: the fallback start is made whatever the detected type
fallback_any_type(type, exited) == exited

\* launch_auto after the sleep: `rc is not None` and `info.get("type") == "static"`
static_fallback(type, exited) == exited /\ type = "static"

\* a faulty variant: a failed launch marks the stored record
record_marks_failed_launch(status, res) == IF res.success THEN status ELSE "failed"

\* execute_complex_task after `res = await execute_safe_command_async("launch_auto", ...)`:
\* both branches and the exception handler only print, the record is not saved again
record_after_launch(status, res) == status

IdleBg == [pc |-> "idle", op |-> "none", caller |-> "main", pid |-> 0, type |-> "none",
           before |-> [n |-> 0, last |-> 0]]

NoBgRes == [op |-> "none", caller |-> "main", arg |-> 0, success |-> FALSE, pid |-> 0,
            error |-> "", type |-> "none", starts |-> 0, early |-> FALSE,
            before |-> [n |-> 0, last |-> 0], same |-> TRUE, started |-> FALSE]

NoFin == [pc |-> "none", status |-> "absent", atLaunch |-> "absent", launches |-> 0]

InitBg ==
    /\ bgProcs = <<>>
    /\ bgLast = 0
    /\ bgCall = IdleBg
    /\ bgRes = NoBgRes
    /\ finRec = NoFin

Snapshot == [n |-> Len(bgProcs), last |-> bgLast]

\* bound: main()'s own commands are followed until a finalization begins
MainAtPrompt == finRec.pc = "none"

\* the entries that existed at the call are what they were
SameEntries(old, new) == Len(new) >= Len(old) /\ SubSeq(new, 1, Len(old)) = old

\* start_process through `runbg` or a RUN_BG directive (who = "main"), or by
\* the project task while the caller is suspended (who = "task")
BgStartProcess(who, command, cwd, name, project_id, env) ==
    /\ \/ who = "main" /\ bgCall.pc = "idle" /\ MainAtPrompt
       \/ who = "task" /\ bgCall.pc # "idle" /\ bgCall.caller = "main"
    /\ Len(bgProcs) < MaxBgProcs
    /\ LET s == start_process(bgProcs, bgLast, command, cwd, name, project_id, env)
       IN  /\ bgProcs' = s.procs
           /\ bgLast' = s.last
           /\ bgRes' = IF who = "main"
                       THEN [NoBgRes EXCEPT !.op = "start_process", !.success = s.res.success,
                                            !.pid = s.res.pid, !.error = s.res.error,
                                            !.before = Snapshot, !.started = s.res.success]
                       ELSE bgRes
    /\ UNCHANGED <<bgCall, finRec>>
    /\ UNCHANGED exceptBg

\* the child of an entry ends by itself
BgChildExits(pid) ==
    /\ pid \in 1..Len(bgProcs)
    /\ bgProcs[pid].child = "running"
    /\ bgProcs' = [bgProcs EXCEPT ![pid].child = "gone"]
    /\ UNCHANGED <<bgLast, bgCall, bgRes, finRec>>
    /\ UNCHANGED exceptBg

\* the result of stop_process(pid) for a registered pid
StopRes(op, pid, procs, before, same) ==
    [NoBgRes EXCEPT !.op = op, !.arg = pid, !.success = TRUE, !.pid = pid,
                    !.before = before, !.same = same]

NotFoundRes(op, pid) ==
    [NoBgRes EXCEPT !.op = op, !.arg = pid, !.error = "Process not found",
                    !.before = Snapshot]

\* restart_process after `await stop_process(pid)`: start_process with the
\* command, cwd, name and project_id of the entry
RestartStart(procs, pid, before, env) ==
    LET info == procs[pid]
        s    == start_process(procs, bgLast, info.command, info.cwd, info.name,
                              info.project_id, env)
    IN  /\ bgProcs' = s.procs
        /\ bgLast' = s.last
        /\ bgRes' = [NoBgRes EXCEPT !.op = "restart_process", !.arg = pid,
                                    !.success = s.res.success, !.pid = s.res.pid,
                                    !.error = s.res.error, !.before = before,
                                    !.started = s.res.success]
        /\ bgCall' = IdleBg

\* stop_process(pid) / restart_process(pid) called by main(): up to the
\* wait_for of stop_process when the child still runs
BgStopOrRestart(op, pid, env) ==
    /\ bgCall.pc = "idle"
    /\ MainAtPrompt
    /\ op = "restart_process" => Len(bgProcs) < MaxBgProcs
    /\ IF pid \notin 1..Len(bgProcs)
       THEN /\ bgRes' = NotFoundRes(op, pid)
            /\ UNCHANGED <<bgProcs, bgLast, bgCall>>
       ELSE IF bgProcs[pid].child = "running"
       THEN \* terminate() is sent; suspended in wait_for(proc.wait(), timeout=2)
            /\ bgCall' = [IdleBg EXCEPT !.pc = "stopwait", !.op = op, !.pid = pid,
                                        !.before = Snapshot]
            /\ UNCHANGED <<bgProcs, bgLast, bgRes>>
       ELSE LET marked == stop_mark(bgProcs, pid, bgProcs[pid].status = "stopped")
            IN  IF op = "stop_process"
                THEN /\ bgProcs' = marked
                     /\ bgRes' = StopRes(op, pid, marked, Snapshot, TRUE)
                     /\ UNCHANGED <<bgLast, bgCall>>
                ELSE RestartStart(marked, pid, Snapshot, env)
    /\ UNCHANGED finRec
    /\ UNCHANGED exceptBg

\* the wait_for of stop_process is over: the child ended on SIGTERM, or the
\* 2 seconds ran out and kill() was sent
BgStopWaitOver(killed, env) ==
    /\ bgCall.pc = "stopwait"
    /\ bgCall.op = "restart_process" => Len(bgProcs) < MaxBgProcs
    /\ LET marked == stop_mark(bgProcs, bgCall.pid, killed)
       IN  IF bgCall.op = "stop_process"
           THEN /\ bgProcs' = marked
                /\ bgRes' = StopRes("stop_process", bgCall.pid, marked, bgCall.before, TRUE)
                /\ bgCall' = IdleBg
                /\ UNCHANGED bgLast
           ELSE RestartStart(marked, bgCall.pid, bgCall.before, env)
    /\ UNCHANGED finRec
    /\ UNCHANGED exceptBg

\* launch_auto returned res to its caller: main() prints; the finalization
\* sleeps 1.5 s after a success and lists the processes, or prints
LaunchReturn(caller, res) ==
    /\ bgRes' = res
    /\ bgCall' = IdleBg
    /\ finRec' = IF caller = "final"
                 THEN [finRec EXCEPT !.status = record_after_launch(finRec.status, res),
                                     !.pc = IF res.success THEN "sleep" ELSE "done"]
                 ELSE finRec

\* the sub-steps of the last step have been gathered and the step saved
FinGathered ==
    /\ bgCall.pc = "idle"
    /\ finRec.pc = "none"
    /\ finRec' = [NoFin EXCEPT !.pc = "gathered", !.status = "in_progress"]
    /\ UNCHANGED <<bgProcs, bgLast, bgCall, bgRes>>
    /\ UNCHANGED exceptBg

\* launch_auto(cwd) up to its sleep, called by main() (`launch <id>`, LAUNCH:
\* auto) or by the finalization, which first saves status=completed
BgLaunchAuto(caller, ptype, bound, env) ==
    /\ bgCall.pc = "idle"
    /\ IF caller = "final" THEN finRec.pc = "gathered" ELSE MainAtPrompt
    /\ Len(bgProcs) + 2 <= MaxBgProcs
    /\ LET fin  == IF caller = "final"
                   THEN [finRec EXCEPT !.status = "completed", !.atLaunch = "completed",
                                       !.launches = @ + 1, !.pc = "launch"]
                   ELSE finRec
           base == [NoBgRes EXCEPT !.op = "launch_auto", !.caller = caller,
                                   !.before = Snapshot]
           info == detect_project_type(ptype, bound)
           s    == start_process(bgProcs, bgLast, info.command, "/w", "", "", env)
           ret(res) == /\ bgRes' = res
                       /\ bgCall' = IdleBg
                       /\ finRec' = IF caller = "final"
                                    THEN [fin EXCEPT !.status = record_after_launch(fin.status, res),
                                                     !.pc = IF res.success THEN "sleep" ELSE "done"]
                                    ELSE fin
       IN  IF ptype = "unreadable"
           THEN \* detect_project_type raises; the dispatcher returns an envelope
                /\ ret([base EXCEPT !.error = "Async command failed"])
                /\ UNCHANGED <<bgProcs, bgLast>>
           ELSE IF info.command = <<>>
           THEN /\ ret([base EXCEPT !.error = "Project type not detected; cannot auto-launch"])
                /\ UNCHANGED <<bgProcs, bgLast>>
           ELSE /\ bgProcs' = s.procs
                /\ bgLast' = s.last
                /\ IF ~s.res.success
                   THEN ret([base EXCEPT !.type = info.type, !.starts = 1,
                                         !.error = s.res.error])
                   ELSE /\ bgCall' = [IdleBg EXCEPT !.pc = "sleep", !.op = "launch_auto",
                                                    !.caller = caller, !.pid = s.res.pid,
                                                    !.type = info.type, !.before = Snapshot]
                        /\ finRec' = fin
                        /\ UNCHANGED bgRes
    /\ UNCHANGED exceptBg

\* launch_auto after `await asyncio.sleep(0.5)`
BgLaunchCheck(bound, env) ==
    /\ bgCall.pc = "sleep"
    /\ LET exited == bgProcs[bgCall.pid].child = "gone"
           base   == [NoBgRes EXCEPT !.op = "launch_auto", !.caller = bgCall.caller,
                                     !.type = bgCall.type, !.before = bgCall.before,
                                     !.early = exited, !.started = TRUE]
           port   == _find_available_port(FirstStaticPort, FirstStaticPort + 1, bound)
           s2     == start_process(bgProcs, bgLast, StaticCommand(port), "/w", "", "", env)
       IN  IF static_fallback(bgCall.type, exited)
           THEN /\ bgProcs' = s2.procs
                /\ bgLast' = s2.last
                /\ LaunchReturn(bgCall.caller,
                                [base EXCEPT !.starts = 2, !.success = s2.res.success,
                                             !.pid = s2.res.pid, !.error = s2.res.error])
           ELSE /\ UNCHANGED <<bgProcs, bgLast>>
                /\ LaunchReturn(bgCall.caller,
                                IF exited
                                THEN [base EXCEPT !.starts = 1, !.pid = bgCall.pid,
                                                  !.error = "Auto-launch exited immediately"]
                                ELSE [base EXCEPT !.starts = 1, !.pid = bgCall.pid,
                                                  !.success = TRUE])
    /\ UNCHANGED exceptBg

\* the finalization after its sleep of 1.5 s: list_processes, the panels
FinListed ==
    /\ bgCall.pc = "idle"
    /\ finRec.pc = "sleep"
    /\ finRec' = [finRec EXCEPT !.pc = "done"]
    /\ UNCHANGED <<bgProcs, bgLast, bgCall, bgRes>>
    /\ UNCHANGED exceptBg

NextBg ==
    \/ \E who \in {"main", "task"}, a \in StartArgs, env \in StartEnvs :
          BgStartProcess(who, a.command, a.cwd, a.name, a.project_id, env)
    \/ \E pid \in BgPids : BgChildExits(pid)
    \/ \E op \in {"stop_process", "restart_process"}, pid \in BgPids, env \in StartEnvs :
          BgStopOrRestart(op, pid, env)
    \/ \E killed \in BOOLEAN, env \in StartEnvs : BgStopWaitOver(killed, env)
    \/ FinGathered
    \/ \E caller \in {"main", "final"}, ptype \in ProjectTypes, env \in StartEnvs :
          BgLaunchAuto(caller, ptype, {}, env)
    \/ \E bound \in SUBSET {FirstStaticPort}, env \in StartEnvs : BgLaunchCheck(bound, env)
    \/ FinListed


(***************************************************************************)
(* ResponseParser.parse_and_execute_async on the directives of a reply.    *)
(* A reply is the sequence of its directives in text order; a directive    *)
(* is [kind, outcome]: "ok" (the command succeeds), "fail" (it returns     *)
(* success=false with an error, or raises what the directive's own         *)
(* handler catches) or, for CREATE_PROJECT, "raise": json.loads raises     *)
(* something that is not a JSONDecodeError (RecursionError on a deeply     *)
(* nested value, ValueError on an integer of more than 4300 digits).       *)
(***************************************************************************)
\* the patterns in the order parse_and_execute and parse_and_execute_async
\* run re.finditer with them
SyncPatterns == <<"CREATE_FILE", "CREATE_PROJECT", "CREATE_FOLDER">>
AsyncPatterns == <<"LAUNCH", "RUN_BG", "STOP_BG", "RESTART_BG", "RUN">>

DirectiveOutcomes(kind) ==
    IF kind = "CREATE_PROJECT" THEN {"ok", "fail", "raise"} ELSE {"ok", "fail"}

Directives ==
    UNION {{[kind |-> SyncPatterns[k], outcome |-> o] :
                o \in DirectiveOutcomes(SyncPatterns[k])} : k \in 1..Len(SyncPatterns)}
    \cup
    UNION {{[kind |-> AsyncPatterns[k], outcome |-> o] :
                o \in DirectiveOutcomes(AsyncPatterns[k])} : k \in 1..Len(AsyncPatterns)}

Replies == SeqsUpTo(Directives, MaxDirectives)

\* re.finditer(pattern, response): the matches of one pattern, in text order
finditer(kind, reply) ==
    SelectSeq([i \in 1..Len(reply) |-> i], LAMBDA i : reply[i].kind = kind)

RECURSIVE MatchesOf(_, _)
\* the matches of the patterns taken one after the other
MatchesOf(patterns, reply) ==
    IF patterns = <<>> THEN <<>>
    ELSE finditer(Head(patterns), reply) \o MatchesOf(Tail(patterns), reply)

NoPaRes == [attempted |-> <<>>, errors |-> <<>>, operations |-> 0]

RECURSIVE SyncWalk(_, _, _)
\* the three loops of parse_and_execute inside its one try: an exception no
\* inner handler catches leaves the loops ("Parser error")
SyncWalk(reply, todo, acc) ==
    IF todo = <<>> THEN acc
    ELSE LET i    == Head(todo)
             seen == [acc EXCEPT !.attempted = Append(@, i)]
         IN  CASE reply[i].outcome = "raise" ->
                     [seen EXCEPT !.errors = Append(@, i)]
               [] reply[i].outcome = "fail" ->
                     SyncWalk(reply, Tail(todo), [seen EXCEPT !.errors = Append(@, i)])
               [] OTHER ->
                     SyncWalk(reply, Tail(todo), [seen EXCEPT !.operations = @ + 1])

\* ResponseParser.parse_and_execute
parse_and_execute(reply) == SyncWalk(reply, MatchesOf(SyncPatterns, reply), NoPaRes)

IdlePa == [pc |-> "idle", todo |-> <<>>, cancel |-> FALSE, requested |-> FALSE]

InitPa ==
    /\ paReply = <<>>
    /\ paRun = IdlePa
    /\ paRes = NoPaRes

\* parse_and_execute_async(response) up to its first await: the synchronous
\* parse, then the first match of the patterns 4 to 6
PaStart(reply) ==
    \* bound: one reply is followed
    /\ paRun.pc = "idle"
    /\ paReply' = reply
    /\ paRes' = parse_and_execute(reply)
    /\ LET todo == MatchesOf(AsyncPatterns, reply)
       IN  paRun' = [IdlePa EXCEPT !.pc = IF todo = <<>> THEN "done" ELSE "await",
                                   !.todo = todo]
    /\ UNCHANGED exceptPa

\* the awaited execute_safe_command_async returned: operations is counted,
\* an error of the result goes to errors, and the next match is run
PaReturn ==
    /\ paRun.pc = "await"
    /\ ~paRun.cancel
    /\ LET i == Head(paRun.todo)
       IN  /\ paRes' = [paRes EXCEPT !.attempted = Append(@, i),
                                     !.operations = @ + 1,
                                     !.errors = IF paReply[i].outcome = "ok" THEN @
                                                ELSE Append(@, i)]
           /\ paRun' = [paRun EXCEPT !.todo = Tail(@),
                                     !.pc = IF Tail(paRun.todo) = <<>> THEN "done" ELSE "await"]
    /\ UNCHANGED paReply
    /\ UNCHANGED exceptPa

\* cancel() on the task that awaits the parser
PaCancelRequest ==
    /\ paRun.pc = "await"
    /\ ~paRun.cancel
    /\ paRun' = [paRun EXCEPT !.cancel = TRUE, !.requested = TRUE]
    /\ UNCHANGED <<paReply, paRes>>
    /\ UNCHANGED exceptPa

\* CancelledError at the await: every handler re-raises it
PaCancelDeliver ==
    /\ paRun.pc = "await"
    /\ paRun.cancel
    /\ paRun' = [paRun EXCEPT !.pc = "cancelled", !.cancel = FALSE]
    /\ UNCHANGED <<paReply, paRes>>
    /\ UNCHANGED exceptPa

NextPa ==
    \/ \E reply \in Replies : PaStart(reply)
    \/ PaReturn
    \/ PaCancelRequest
    \/ PaCancelDeliver


(***************************************************************************)
(* TaskPlanner.analyze_task after json.loads: the reply of the model is    *)
(* its mode and its step list (null and [] are both the empty list, by     *)
(* `ret.get("steps") or []`).                                              *)
(***************************************************************************)
Modes == {"conversation", "project"}

ModelStepLists == {[i \in 1..k |-> "model step"] : k \in 0..MaxModelSteps}

NoComplexity == [level |-> "none", estimated_steps |-> 0, suggested_concurrency |-> 0]

\* "small" if level == "low" else ("large" if level == "high" else "medium")
mapped_level(level) ==
    IF level = "low" THEN "small" ELSE IF level = "high" THEN "large" ELSE "medium"

\* the target step count of a bucket
target_steps(mapped, base_steps) ==
    IF mapped = "small" THEN Max(3, Min(6, base_steps))
    ELSE IF mapped = "medium" THEN Max(7, Min(12, base_steps + 3))
    ELSE Max(13, Min(25, base_steps + 10))

\* not steps or len(steps) < max(3, target // 2)
steps_too_few(steps, target) == steps = <<>> \/ Len(steps) < Max(3, target \div 2)

suggested_concurrency(mapped) ==
    IF mapped = "small" THEN 2 ELSE IF mapped = "medium" THEN 3 ELSE 4

\* the dict analyze_task returns for a reply that parses as JSON
analyze_task(user_input, mode, model_steps) ==
    IF mode # "project"
    THEN [mode |-> mode, steps |-> model_steps, target |-> 0, is_complex |-> FALSE,
          complexity |-> NoComplexity]
    ELSE LET comp   == estimate_task_complexity(user_input)
             mapped == mapped_level(comp.level)
             target == target_steps(mapped, comp.estimated_steps)
             steps  == IF steps_too_few(model_steps, target)
                       THEN break_down_task(user_input, target)
                       ELSE model_steps
         IN  [mode |-> mode, steps |-> steps, target |-> target,
              is_complex |-> mapped # "small",
              complexity |-> [level |-> mapped, estimated_steps |-> Len(steps),
                              suggested_concurrency |-> suggested_concurrency(mapped)]]

InitAt ==
    atRes = [n |-> 0, user_input |-> <<>>, model_steps |-> <<>>,
             ret |-> analyze_task(<<>>, "conversation", <<>>)]

AnalyzeTask(user_input, mode, model_steps) ==
    /\ atRes.n < MaxAnalyses
    /\ atRes' = [n |-> atRes.n + 1, user_input |-> user_input,
                 model_steps |-> model_steps,
                 ret |-> analyze_task(user_input, mode, model_steps)]
    /\ UNCHANGED exceptAt

NextAt ==
    \E user_input \in Descriptions, mode \in Modes, model_steps \in ModelStepLists :
        AnalyzeTask(user_input, mode, model_steps)


(***************************************************************************)
(* The initial generation (src/main.py): execute_complex_task runs the     *)
(* steps one after the other inside main() and saves the record after      *)
(* every step whose reply is not empty.  One project; a program run is of  *)
(* one generation or of the other.                                         *)
(***************************************************************************)
OgNoRecord == [status |-> "absent", current_step |-> 0, steps |-> 0,
               permission_granted |-> FALSE]

OgIdle == [pc |-> "none", n |-> 0, steps |-> 0, start_step |-> 0, i |-> 0,
           permission_granted |-> FALSE, saves |-> 0]

\* a faulty variant: every step save marks the project completed
completion_status_always(i, n) == "completed"

\* "completed" if i == len(steps) else "in_progress"
completion_status(i, n) == IF i = n THEN "completed" ELSE "in_progress"

\* the first step the loop does not skip (`if i <= start_step: continue`);
\* len(steps) + 1 when every step is skipped
first_step(start_step, n) == Min(start_step, n) + 1

InitOg ==
    /\ ogStore = OgNoRecord
    /\ ogRun = OgIdle

\* execute_complex_task(task_name, steps, original_input, project_id) up to the
\* first `await self.ai_client.send_message`: load, the permission prompt and
\* the skipped steps.  A resume passes the stored plan; a new project gets a
\* fresh time-stamped id, so it is the one project only while nothing is
\* stored.  answer: the operator's reply to Confirm.ask
OgStart(steps, answer) ==
    /\ ogRun.pc # "ai"
    /\ ogRun.n < MaxOgRuns
    /\ ogStore.status # "absent" => steps = ogStore.steps
    /\ LET has        == ogStore.status # "absent"
           start_step == IF has THEN ogStore.current_step ELSE 0
           perm0      == IF has THEN ogStore.permission_granted ELSE FALSE
           ask        == ~perm0 /\ start_step = 0
           perm       == IF ask THEN answer ELSE perm0
           i          == first_step(start_step, steps)
       IN  /\ ask \/ answer
           /\ ogRun' = [pc |-> IF ask /\ ~answer THEN "declined"
                               ELSE IF i > steps THEN "done" ELSE "ai",
                        n |-> ogRun.n + 1, steps |-> steps, start_step |-> start_step,
                        i |-> IF ask /\ ~answer THEN 0 ELSE i,
                        permission_granted |-> perm, saves |-> 0]
    /\ UNCHANGED ogStore
    /\ UNCHANGED exceptOg

\* send_message returned: a reply that is not empty is parsed and the
\* progress is saved; an empty one ("" on every API error) is passed over.
\* Then the next step, or the final summary.
OgReply(nonempty) ==
    /\ ogRun.pc = "ai"
    /\ ogStore' = IF nonempty
                  THEN [status |-> completion_status(ogRun.i, ogRun.steps),
                        current_step |-> ogRun.i, steps |-> ogRun.steps,
                        permission_granted |-> ogRun.permission_granted]
                  ELSE ogStore
    /\ ogRun' = [ogRun EXCEPT !.pc = IF ogRun.i < ogRun.steps THEN "ai" ELSE "done",
                              !.i = ogRun.i + 1,
                              !.saves = IF nonempty THEN @ + 1 ELSE @]
    /\ UNCHANGED exceptOg

\* KeyboardInterrupt while a reply is awaited: asyncio.run(main()) ends
OgInterrupt ==
    /\ ogRun.pc = "ai"
    /\ ogRun' = [ogRun EXCEPT !.pc = "interrupted"]
    /\ UNCHANGED ogStore
    /\ UNCHANGED exceptOg

NextOg ==
    \/ \E steps \in 1..MaxSteps, answer \in BOOLEAN : OgStart(steps, answer)
    \/ \E nonempty \in BOOLEAN : OgReply(nonempty)
    \/ OgInterrupt

\* the program run is of the current generation / of the initial one
CurrentGeneration == ogRun = OgIdle /\ ogStore = OgNoRecord

InitialGeneration == pgRun = PgIdle /\ pgStore = NoRecord /\ pgHist = NoHist

NextGen ==
    \/ CurrentGeneration /\ NextProg
    \/ InitialGeneration /\ NextOg

(***************************************************************************)
(* Specifications                                                          *)
(***************************************************************************)
Init == InitExec /\ InitFs /\ InitCmd /\ InitMain /\ InitRun /\ InitSafe /\ InitPs /\ InitPm /\ InitAi /\ InitParse /\ InitTwice /\ InitPlan /\ InitTrim /\ InitPort /\ InitKey /\ InitProg /\ InitBg /\ InitPa /\ InitAt /\ InitOg

Next == NextExec

Spec == Init /\ [][Next]_vars

SpecFs == Init /\ [][NextFs]_vars

SpecCmd == Init /\ [][NextCmd]_vars

SpecMain == Init /\ [][NextMain]_vars

SpecRun == Init /\ [][NextRun]_vars

SpecSafe == Init /\ [][NextSafe]_vars

SpecPs == Init /\ [][NextPs]_vars

SpecPm == Init /\ [][NextPm]_vars

SpecAi == Init /\ [][NextAi]_vars

SpecParse == Init /\ [][NextParse]_vars

SpecTwice == Init /\ [][NextTwice]_vars

SpecPlan == Init /\ [][NextPlan]_vars

SpecTrim == Init /\ [][NextTrim]_vars

SpecPort == Init /\ [][NextPort]_vars

SpecKey == Init /\ [][NextKey]_vars

SpecProg == Init /\ [][NextProg]_vars

SpecBg == Init /\ [][NextBg]_vars

SpecPa == Init /\ [][NextPa]_vars

SpecAt == Init /\ [][NextAt]_vars

SpecGen == Init /\ [][NextGen]_vars

(***************************************************************************)
(* Properties of the Step Executor (specification Spec)                    *)
(***************************************************************************)

\* C1: once a task for which request_stop() was issued while it was not yet
\* done has ended, the store holds a record of its project whose status is
\* stopped or in_progress (never absent, never completed).  Stated for runs
\* with the helper library complete and the permission granted.
C1_StopLeavesStoppedRecord ==
    (helperDefined /\ ~Declined(task) /\ TaskFinished(task) /\ task.stopIssued) =>
        store[task.pid].status \in {"stopped", "in_progress"}

\* C6: after a negative answer to the permission prompt the task does nothing
\* more: no sub-step list is generated and no sub-step task exists for it.
C6_DeclineAborts ==
    Declined(task) => (CurSubs = {} /\ task.i = 0 /\ task.ran = {})

\* C7: the permission prompt belongs to the first run of a project: a run that
\* resumes a project which already has a stored record never shows it.
C7_PromptOncePerProject ==
    (task.st # "created" /\ task.resumed) => ~task.asked

\* C8: a run that reaches the completed save has executed the sub-steps of
\* every step from the saved current_step + 1 through len(steps).
C8_AllRemainingStepsRun ==
    (~Declined(task) /\ task.st \in {"launch", "done"}) =>
        \A k \in (task.start + 1)..task.steps : k \in task.ran

\* C9: steps run strictly in plan order: while sub-step tasks of step k of a
\* run exist, every earlier remaining step of that run has already had its
\* sub-steps run to their end, and no task of another step of the run exists.
C9_StepsInPlanOrder ==
    (helperDefined /\ ~Declined(task)) =>
        \A s \in CurSubs :
            /\ s.data.cs + 1 = task.i
            /\ \A k \in (task.start + 1)..(task.i - 1) : k \in task.ran

\* the sub-steps of the current step that are inside `async with _substep_sem`
CurHolders == {s \in CurSubs : SubHolding(s)}

C10_Bounded ==
    /\ Cardinality(CurHolders) <= max_concurrency
    /\ max_concurrency \in MinConcurrency..MaxConcurrency
    /\ task.run = 0 => max_concurrency = DefaultConcurrency

C10_Step ==
    /\ max_concurrency' # max_concurrency =>
          /\ task.hint.given
          /\ max_concurrency' = Max(MinConcurrency, Min(MaxConcurrency, task.hint.k))
    /\ sem' # sem => (max_concurrency' # max_concurrency /\ sem'.cap = max_concurrency')

\* C10: at most max_concurrency sub-steps of the current step hold the
\* semaphore; max_concurrency stays within 1..8, is 2 until a run changes it,
\* changes only to the clamped suggested_concurrency of the run's hint, and
\* the semaphore is replaced only in a step that changes the level.
C10_ConcurrencyBound == []C10_Bounded /\ [][C10_Step]_vars

\* a run whose hint was clamped up to 1 has one sub-step holding the rebuilt
\* semaphore and another one queued on it
C10_Witness ==
    /\ task.st = "gather"
    /\ task.hint.given /\ task.hint.k < MinConcurrency
    /\ max_concurrency = MinConcurrency
    /\ sem.id = task.run
    /\ Cardinality(CurHolders) = max_concurrency
    /\ \E s \in CurSubs : s.st = "wait"

\* C11: a sub-step calls the AI Client once, and once more exactly when the
\* first parser pass reported a non-empty errors list; whatever the retry
\* reports there is no third call, and what the retry created is in memory.
C11_OneRetry ==
    \A s \in subs :
        /\ s.calls <= 2
        /\ s.st \in {"cmd", "retry", "rcmd", "ok"} =>
              /\ s.calls >= 1
              /\ (s.st # "cmd") => (s.calls = 2 <=> s.errors # <<>>)
        /\ s.retry # "none" => s.calls = 2
        /\ s.retry = "files" => "retry" \in s.mem

\* a sub-step whose first pass reported errors has completed after a retry that
\* reported errors again, next to one that completed without a retry
C11_Witness ==
    /\ \E s \in CurSubs : s.st = "ok" /\ s.errors # <<>> /\ s.retry = "errors" /\ s.calls = 2
    /\ \E s \in CurSubs : s.st = "ok" /\ s.errors = <<>> /\ s.calls = 1

\* C14: an empty reply of the AI Client is skipped: the sub-step raises nothing
\* and ends like any other, its progress saved.
C14_EmptyReplySkipped ==
    \A s \in subs : s.st # "unbound"

(***************************************************************************)
(* Properties of the Filesystem Command Module (specification SpecFs)      *)
(***************************************************************************)
\* the errors with which a command refuses a path
Denials == {AccessDenied, "Invalid carousel name", "Carousel path outside working directory"}

C2_Step ==
    (fsRes'.n # fsRes.n /\ fsRes'.op \in FsOps /\ fsRes'.outside) =>
        /\ ~fsRes'.success
        /\ fsRes'.error \in Denials
        /\ fsDirs' = fsDirs
        /\ fsFiles' = fsFiles
        /\ fsRes'.read = {}

\* C2: every filesystem command given a path that resolves outside the working
\* directory returns success = false with a refusal and leaves the disk as it
\* was, reading nothing.
C2_OutsidePathsDenied == [][C2_Step]_vars

C3_Step ==
    (fsRes'.n # fsRes.n /\ fsRes'.op \in ParserOps) =>
        /\ \A e \in fsFiles' \ fsFiles : Inside(e[1])
        /\ \A r \in fsRes'.read : Inside(r)

\* C3: executing a CREATE_FILE, CREATE_PROJECT or CREATE_FOLDER directive of a
\* reply never reads and never creates or overwrites a file outside the
\* working directory.
C3_ParserStaysInside == [][C3_Step]_vars

(***************************************************************************)
(* Properties of the allow-list gate (specification SpecCmd)               *)
(***************************************************************************)
\* the allow-listed names of the function that was called
NamesOf(fn) == IF fn = "start_process" THEN ALLOWED_PREFIXES ELSE allowed_prefixes

NotAllowedOf(fn) == IF fn = "start_process" THEN NotAllowedStart ELSE NotAllowedRun

\* the command is empty, or its first token neither is nor starts with a name
NoAllowedFirstToken(command, names) ==
    LET toks == Tokens(<<>>, command)
    IN  toks = <<>> \/ \A q \in names : ~startswith(toks[1], q)

\* the call was refused: nothing spawned, registry and last pointer as before
Refused ==
    /\ ~cmdRes'.success
    /\ cmdRes'.error = NotAllowedOf(cmdRes'.fn)
    /\ ~cmdRes'.spawned
    /\ cmdRes'.programs = {}
    /\ registry' = registry
    /\ last_pid' = last_pid

C4_Step ==
    (cmdRes'.n # cmdRes.n /\ NoAllowedFirstToken(lower(cmdRes'.command), NamesOf(cmdRes'.fn)))
        => Refused

\* C4 (as the code has it): a call of run_command_async or start_process whose
\* command is empty or whose first token, lower-cased, neither equals nor
\* starts with an allow-listed name is refused with the not-allowed error,
\* spawns nothing and leaves the registry and the last-started pointer alone.
C4_GateRefuses == [][C4_Step]_vars

C4_StepAsWritten ==
    (cmdRes'.n # cmdRes.n /\ NoAllowedFirstToken(cmdRes'.command, NamesOf(cmdRes'.fn)))
        => Refused

\* C4 (as stated): the same with the first token compared as it was written.
C4_GateRefusesAsWritten == [][C4_StepAsWritten]_vars

\* a start_process call with a first token off the list was refused while the
\* registry held an earlier process
C4_Witness ==
    /\ cmdRes.fn = "start_process"
    /\ cmdRes.command # <<>>
    /\ NoAllowedFirstToken(lower(cmdRes.command), ALLOWED_PREFIXES)
    /\ ~cmdRes.success
    /\ registry # {}
    /\ last_pid \in registry

\* C5: every program that an accepted command makes the shell run has an
\* allow-listed name (its lower-cased name is, or starts with, a listed name).
C5_OnlyAllowListedProgramsRun ==
    cmdRes.spawned =>
        \A prog \in cmdRes.programs :
            \E q \in NamesOf(cmdRes.fn) : startswith(lower(prog), q)

(***************************************************************************)
(* Properties of the main loop (specification SpecMain)                    *)
(***************************************************************************)
C12_Step ==
    (lastCmd'.n # lastCmd.n /\ lastCmd'.kind = "stop") =>
        IF IsRunning(active_project_task, project_tasks)
        THEN project_tasks[active_project_task].st = "gather" =>
                 project_tasks'[active_project_task].cancel
        ELSE project_tasks' = project_tasks /\ ~lastCmd'.stop_all

C12_StopAll ==
    (lastCmd'.stop_all /\ ~lastCmd.stop_all) =>
        /\ lastCmd.kind = "stop" /\ lastCmd.running
        /\ PDone(project_tasks[active_project_task])

\* C12: a `stop` read while a project task is running cancels that task's
\* in-flight sub-step tasks, whatever was entered before it; stop_all_processes
\* is invoked only by such a stop and only once the task has ended; a `stop`
\* read while nothing is running cancels nothing and stops no process.
C12_StopCancelsRunningTask == [][C12_Step /\ C12_StopAll]_vars

\* C13: at most one project task started by the main loop is not done.
C13_OneProjectAtATime ==
    Cardinality({k \in DOMAIN project_tasks : ~PDone(project_tasks[k])}) <= 1

\* a resume or a project request was refused while a task was in its gather
C13_Witness ==
    /\ lastCmd.kind \in {"resume", "project"}
    /\ lastCmd.refused
    /\ active_project_task # 0
    /\ project_tasks[active_project_task].st = "gather"
    /\ Len(project_tasks) = 1

(***************************************************************************)
(* Properties of run_command_async (specification SpecRun)                 *)
(***************************************************************************)
\* C15: a call cancelled while its child was running ends by raising the
\* cancellation only after terminate() was sent, the child is gone and the log
\* file is written; a cancelled call never returns a result.
C15_CancelStopsChildAndLogs ==
    /\ (runCall.pc = "raised" /\ runCall.cancelledRunning) =>
           /\ runProc.terminate
           /\ runProc.st = "exited"
           /\ runRes.log
    /\ runCall.pc = "returned" => (runCall.cancels = 0 \/ runCall.cancel)

\* C16: a call that returns after the timeout it was given ran out with the
\* child still running returns success = false and "Command timed out", the
\* child terminated; a call whose child exited before the deadline is never
\* reported as timed out.
C16_TimeoutReported ==
    runCall.pc = "returned" =>
        IF runCall.deadlinePassed
        THEN ~runRes.success /\ runRes.error = "Command timed out" /\ runProc.terminate
        ELSE runRes.error # "Command timed out"

(***************************************************************************)
(* Properties of the dispatchers (specification SpecSafe)                  *)
(***************************************************************************)
\* C17: execute_safe_command always gives its caller an envelope, whatever the
\* name and whatever the command function did; execute_safe_command_async
\* does too unless the awaited function was cancelled, and then it raises that
\* cancellation and nothing else.  An unknown name gives success = false.
C17_DispatchersReturnEnvelope ==
    /\ safeRes.fn = "execute_safe_command" => safeRes.out.raised = "none"
    /\ safeRes.fn = "execute_safe_command_async" =>
          /\ safeRes.out.raised \in {"none", "CancelledError"}
          /\ safeRes.out.raised = "CancelledError" =>
                (safeRes.behaviour = "CancelledError" /\ safeRes.name \in AsyncCommands)
    /\ (safeRes.fn # "none" /\ safeRes.name = "bogus") =>
          (safeRes.out.raised = "none" /\ ~safeRes.out.success)
    /\ (safeRes.out.raised = "none" /\ safeRes.behaviour = "Exception") => ~safeRes.out.success

\* a known command raised an exception inside the synchronous dispatcher and
\* the caller got a failure envelope
C17_Witness ==
    /\ safeRes.fn = "execute_safe_command"
    /\ safeRes.name \in SyncCommands
    /\ safeRes.behaviour = "Exception"
    /\ safeRes.out = Envelope(FALSE, "Command execution failed")

(***************************************************************************)
(* Properties of ProjectState (specification SpecPs)                       *)
(***************************************************************************)
\* C18: for an id made only of the characters A-Z a-z 0-9 _ -, a load_project
\* that follows a save_project of that id returns the data saved; for an id
\* with any other character in it (a separator, a dot, a newline)
\* save_project raises the invalid-id error and writes no file, and
\* load_project returns None.
C18_IdValidationRoundTrip ==
    /\ (psRes.op = "load_project" /\ full_match(psRes.id)
           /\ PsGet(psSaved, psRes.id, NoData) # NoData) =>
          psRes.value = PsGet(psSaved, psRes.id, NoData)
    /\ (psRes.op = "save_project" /\ ~all_in_class(psRes.id)) =>
          (psRes.raised = "ValueError" /\ ~psRes.wrote)
    /\ (psRes.op = "load_project" /\ ~all_in_class(psRes.id)) => psRes.value = NoData
    /\ \A s \in IdStrings : ~all_in_class(s) => PsGet(psFiles, s, NoFile) = NoFile

(***************************************************************************)
(* Properties of the process registry (specification SpecPm)               *)
(***************************************************************************)
\* C19: when start_process has returned success, list_processes shows the
\* returned id with status running; when stop_process has returned success
\* for an id, that id's status is stopped or exited; when
\* stop_all_processes has returned, no registered process has status
\* running and the count it reports is at least the number of processes that
\* had status running when it was called.
C19_RegistryStatus ==
    /\ (pmRes.op = "start_process" /\ pmRes.success) =>
          <<pmRes.pid, "running">> \in list_processes(pmProcs)
    /\ (pmRes.op = "stop_process" /\ pmRes.success) =>
          /\ pmRes.status \in {"stopped", "exited"}
          /\ pmCall.pc = "idle" => pmProcs[pmRes.pid].status \in {"stopped", "exited"}
    /\ (pmRes.op = "stop_all_processes" /\ pmCall.pc = "idle") =>
          /\ \A pid \in Registered : pmProcs[pid].status # "running"
          /\ pmRes.count >= pmRes.running

(***************************************************************************)
(* Properties of the remote AI call (specification SpecAi)                 *)
(***************************************************************************)
\* C20: a remote call sends the stored user key when there is a key store,
\* its use_user_key flag is set and the store yields a key; in every other
\* case it sends the environment's key; and when the key so chosen is empty
\* the call returns "" without posting anything.
C20_CredentialChoice ==
    aiRes.n > 0 =>
      LET chosen == IF aiRes.configured /\ aiRes.flag /\ aiRes.stored # NoKey
                    THEN aiRes.stored ELSE aiRes.env
      IN  /\ aiRes.posted <=> chosen # NoKey
          /\ aiRes.posted => aiRes.credential = chosen
          /\ ~aiRes.posted => aiRes.reply = ""

\* C20 as stated: with a key store whose flag is set the credential is the
\* stored user key, whatever it is, and the environment's key is used only
\* when there is no key store or the flag is off.
C20_CredentialChoiceAsStated ==
    aiRes.n > 0 =>
      LET chosen == IF aiRes.configured /\ aiRes.flag THEN aiRes.stored ELSE aiRes.env
      IN  /\ aiRes.posted => aiRes.credential = chosen
          /\ (aiRes.stored = NoKey /\ aiRes.env = NoKey) => (~aiRes.posted /\ aiRes.reply = "")

\* the flag is set, the store yields no key, the environment has one: the
\* call posts with the environment's key
C20_Witness ==
    /\ aiRes.n > 0
    /\ aiRes.configured /\ aiRes.flag
    /\ aiRes.stored = NoKey
    /\ aiRes.env = EnvKey
    /\ aiRes.posted /\ aiRes.credential = EnvKey

(***************************************************************************)
(* Properties of the Response Parser on a whole reply (SpecParse)          *)
(***************************************************************************)
\* C21: when a reply made of CREATE_FILE blocks that name distinct paths has
\* been parsed, every named file is on disk with exactly the content of its
\* block, operations is the number of blocks, files_created lists the paths
\* in the order of the blocks and errors is empty.
C21_BlocksBecomeFiles ==
    LET blocks == prReply.blocks
    IN  (/\ prRes.n > 0
         /\ prReply.parsed
         /\ \A i, j \in 1..Len(blocks) : blocks[i].path = blocks[j].path => i = j)
        => /\ \A i \in 1..Len(blocks) :
                 <<Cwd \o blocks[i].path, blocks[i].content>> \in prFiles
           /\ prRes.operations = Len(blocks)
           /\ prRes.files_created = [i \in 1..Len(blocks) |-> JoinPath(blocks[i].path)]
           /\ prRes.errors = <<>>

(***************************************************************************)
(* Properties of repeated creation (specification SpecTwice)               *)
(***************************************************************************)
\* the last two calls were the same creation command on the same path, and
\* the path resolves inside the working directory
SameCallTwice ==
    /\ twLast.op \in {"create_folder", "create_empty_file"}
    /\ twPrev.op = twLast.op
    /\ twPrev.p = twLast.p
    /\ twLast.inside

C23_ExactlyNumSteps ==
    bdRes.n > 0 => Len(bdRes.steps) = bdRes.num_steps

(***************************************************************************)
(* Properties of prevent_hallucination_in_long_tasks (specification        *)
(* SpecTrim)                                                               *)
(***************************************************************************)
StartsWith(s, p) == Len(p) <= Len(s) /\ SubSeq(s, 1, Len(p)) = p

EndsWith(s, p) == Len(p) <= Len(s) /\ SubSeq(s, Len(s) - Len(p) + 1, Len(s)) = p

HasMarker(s) ==
    \E i \in 1..(Len(s) - Len(TruncationMarker) + 1) :
        SubSeq(s, i, i + Len(TruncationMarker) - 1) = TruncationMarker

\* the call left a tail of the context in the result
TailKept ==
    /\ Len(trimRes.context) > trimRes.max_context_length
    /\ Len(header_of(trimRes.context)) + TruncationBuffer < trimRes.max_context_length

\* C24: a context that fits is returned unchanged.  A context that does not
\* fit and whose first 10 lines leave room (their length plus the buffer of
\* 100 is below max_context_length) comes back as those lines, the marker
\* "earlier steps truncated for brevity" and the last
\* max_context_length - len(header) - 100 characters of the context.  Every
\* other context comes back as the first max_context_length characters of its
\* first 10 lines, without the marker.  The result is never longer than
\* max_context_length.
C24_TrimmedContext ==
    trimRes.n > 0 =>
        LET context == trimRes.context
            max     == trimRes.max_context_length
            header  == header_of(context)
            result  == trimRes.result
        IN  /\ Len(context) <= max => result = context
            /\ TailKept =>
                  /\ StartsWith(result, header)
                  /\ HasMarker(result)
                  /\ EndsWith(result, py_suffix(context, max - Len(header) - TruncationBuffer))
                  /\ Len(result) = Len(header) + Len(MarkerBlock)
                                      + (max - Len(header) - TruncationBuffer)
            /\ (Len(context) > max /\ ~TailKept) =>
                  /\ result = py_prefix(header, max)
                  /\ ~HasMarker(result)
            /\ Len(context) > max => Len(result) <= max

\* C24 as the claim states it: a context that does not fit always comes back
\* starting with its original first 10 lines, with the marker whenever a tail
\* is kept, and no longer than max_context_length plus the marker block.
C24_TrimmedContextAsStated ==
    trimRes.n > 0 =>
        LET context == trimRes.context
            max     == trimRes.max_context_length
            result  == trimRes.result
        IN  IF Len(context) <= max THEN result = context
            ELSE /\ StartsWith(result, header_of(context))
                 /\ TailKept => HasMarker(result)
                 /\ Len(result) <= max + Len(MarkerBlock)

\* a context longer than max_context_length was cut down to its first lines,
\* the marker and a tail
C24_Witness ==
    /\ trimRes.n > 0
    /\ TailKept
    /\ HasMarker(trimRes.result)
    /\ trimRes.result # trimRes.context

(***************************************************************************)
(* Properties of _find_available_port (specification SpecPort)             *)
(***************************************************************************)
\* C25: whatever ports of [start, end] other listeners hold, the port
\* _find_available_port(start, end) returns is none of them, and it is start
\* when no port of the range is held.
C25_NeverABoundPort ==
    portRes.n > 0 =>
        /\ portRes.port \notin portRes.bound
        /\ (portRes.bound \cap (portRes.start..portRes.end) = {}
               => portRes.port = portRes.start)
(***************************************************************************)
(* Properties of the key store (specification SpecKey)                     *)
(***************************************************************************)
\* what a set_use_user_key call may change: the flag and updated_at
FlagAndStamp(before, after) ==
    /\ after.provider = before.provider
    /\ after.encrypted_api_key = before.encrypted_api_key

C27_CurrentStepCountsExecutedSteps ==
    pgStore.status # "absent" =>
        /\ pgStore.current_step = Cardinality(pgHist.executed)
        /\ pgStore.current_step <= pgStore.steps

\* C28: when the process has died between two sub-step completions and the
\* project is resumed from the stored record, the resumed run executes again
\* at most one sub-step that had completed before the crash.
C28_AtMostOneSubstepRepeated ==
    pgHist.between => Cardinality(pgHist.redo) <= 1

\* C29: a sub-step j of step i that is cancelled while it runs saves a record
\* with status stopped, current_step = i - 1 and current_substep = j - 1 (0
\* at least); when it was the only sub-step in flight the stored record holds
\* these values once execute_complex_task has re-raised the cancellation.
C29_CancelledSubstepRecord ==
    pgHist.cancel.j > 0 =>
        LET c == pgHist.cancel
        IN  /\ c.saved.status = "stopped"
            /\ c.saved.current_step = c.i - 1
            /\ c.saved.current_substep = Max(0, c.j - 1)
            /\ (c.alone /\ pgRun.st = "cancelled") =>
                  /\ pgStore.status = "stopped"
                  /\ pgStore.current_step = c.i - 1
                  /\ pgStore.current_substep = Max(0, c.j - 1)

\* C30: while the sub-steps of a step are in flight the stored current_substep
\* is the one of the last sub-step save, whatever the earlier saves carried;
\* once all sub-steps have finished and the step-level save is done it is the
\* number of sub-steps of the step.
C30_LastSaveWins ==
    /\ (pgRun.st = "gather" /\ pgHist.saves # <<>>) =>
          pgStore.current_substep = pgHist.saves[Len(pgHist.saves)]
    /\ pgRun.st = "done" =>
          /\ \A j \in DOMAIN pgSubs : pgSubs[j].st = "ok"
          /\ pgStore.current_substep = pgRun.n

\* every sub-step of the step has completed, a later save carried a lower
\* current_substep than an earlier one, and the stored value is below the
\* number of sub-steps
C30_Witness ==
    /\ pgRun.st = "gather"
    /\ pgRun.n >= 2
    /\ \A j \in DOMAIN pgSubs : pgSubs[j].st = "ok"
    /\ \E k \in 1..(Len(pgHist.saves) - 1) : pgHist.saves[k] > pgHist.saves[k + 1]
    /\ pgStore.current_substep < pgRun.n
(***************************************************************************)
(* C31  request_stop() cancels every sub-step task of the current step     *)
(* that is not done, those holding the semaphore and those waiting for     *)
(* it, and a sub-step task it has cancelled makes no further AI Client     *)
(* call.                                                                   *)
(***************************************************************************)
\* a step in which cancel() was called on a task
C31_CancelCalled == \E s \in subs' : s.cancel /\ s \notin subs

\* the sub-step task s has a cancellation pending or is handling one
C31_Stopping(s) == s.cancel \/ s.st = "killing"

C31_Step ==
    /\ C31_CancelCalled =>
          /\ stop_requested'
          /\ \A t \in subs' : (t.run = task'.run /\ SubLive(t)) => t.cancel
    /\ \A s \in subs : C31_Stopping(s) =>
          \A t \in subs' : (t.run = s.run /\ t.j = s.j) =>
              /\ t.calls = s.calls
              /\ t.st \in {"wait", "ai", "cmd", "retry", "rcmd"} => t.st = s.st

\* C31: request_stop() marks every live sub-step task of the step being
\* gathered, waiting or running, and after it no such task starts an AI call.
C31_StopCancelsEverySubstep == [][C31_Step]_vars

\* request_stop() was called with one sub-step in its AI call and another
\* still queued on the semaphore; both have a cancellation pending
C31_Witness ==
    /\ task.st = "gather"
    /\ stop_requested
    /\ \E s, t \in subs :
          /\ s.run = task.run /\ t.run = task.run
          /\ s.st = "ai" /\ s.cancel
          /\ t.st = "wait" /\ t.cancel

(***************************************************************************)
(* C32  On normal completion the record is saved with status=completed     *)
(* before the one auto-launch attempt begins, and whatever the attempt     *)
(* returns (project type not detected, detection raising, a failed start,  *)
(* an early exit, a success) the stored status stays completed.            *)
(***************************************************************************)
\* C32: from the moment launch_auto is called by the finalization, the stored
\* status was completed at the call, is completed now, and one call was made.
C32_CompletedBeforeLaunch ==
    finRec.pc \in {"launch", "sleep", "done"} =>
        /\ finRec.atLaunch = "completed"
        /\ finRec.status = "completed"
        /\ finRec.launches = 1

\* the finalization has ended after a launch whose process exited at once
C32_Witness ==
    /\ finRec.pc = "done"
    /\ bgRes.op = "launch_auto" /\ bgRes.caller = "final"
    /\ bgRes.early /\ ~bgRes.success /\ bgRes.type = "node-server"
    /\ finRec.status = "completed"

(***************************************************************************)
(* C34  launch_auto calls start_process at most twice, the second time     *)
(* only after the first process was found exited after the 0.5 s sleep     *)
(* and the detected type is static; an early exit of any other type is     *)
(* returned as a failure; an undetectable project starts nothing and       *)
(* fails.                                                                  *)
(***************************************************************************)
\* C34: the number of start_process calls of the last launch_auto and its result
C34_LaunchAutoStarts ==
    bgRes.op = "launch_auto" =>
        /\ bgRes.starts \in 0..2
        /\ bgRes.starts = 2 => (bgRes.early /\ bgRes.type = "static")
        /\ (bgRes.early /\ bgRes.type # "static") => (~bgRes.success /\ bgRes.starts = 1)
        /\ bgRes.type = "none" => (bgRes.starts = 0 /\ ~bgRes.success /\ ~bgRes.started)

\* a static project whose first server exited at once was started a second
\* time, with success
C34_Witness ==
    /\ bgRes.op = "launch_auto"
    /\ bgRes.type = "static" /\ bgRes.early
    /\ bgRes.starts = 2 /\ bgRes.success

(***************************************************************************)
(* C35  restart_process(pid): on a registered pid the old entry is marked  *)
(* stopped or exited and stays, and start_process is called with its       *)
(* command, cwd, name and project_id; a start that succeeds adds an entry  *)
(* under a new id with these values and makes it _LAST_PID.  On an unknown *)
(* pid nothing changes.  No step removes or rewrites an entry's command,   *)
(* cwd, name or project_id.                                                *)
(***************************************************************************)
\* the step in which restart_process returns
C35_Returns == bgRes' # bgRes /\ bgRes'.op = "restart_process"

C35_SameProgram(a, b) ==
    /\ a.command = b.command /\ a.cwd = b.cwd
    /\ a.name = b.name /\ a.project_id = b.project_id

C35_EntriesKept ==
    /\ Len(bgProcs') >= Len(bgProcs)
    /\ \A k \in 1..Len(bgProcs) : C35_SameProgram(bgProcs'[k], bgProcs[k])

C35_Unknown ==
    (C35_Returns /\ bgRes'.arg > Len(bgProcs)) =>
        (~bgRes'.success /\ bgProcs' = bgProcs /\ bgLast' = bgLast)

C35_OldStopped ==
    (C35_Returns /\ bgRes'.arg <= Len(bgProcs)) =>
        bgProcs'[bgRes'.arg].status \in {"stopped", "exited"}

C35_NewEntry ==
    LET old == bgRes'.arg
        new == bgRes'.pid
    IN  /\ Len(bgProcs') = Len(bgProcs) + 1
        /\ new = Len(bgProcs') /\ new # old
        /\ C35_SameProgram(bgProcs'[new], bgProcs[old])
        /\ bgProcs'[new].status = "running"
        /\ bgLast' = new

C35_Step ==
    /\ C35_EntriesKept
    /\ C35_Unknown
    /\ C35_OldStopped
    /\ (C35_Returns /\ bgRes'.arg <= Len(bgProcs)) =>
          IF bgRes'.success THEN C35_NewEntry
          ELSE Len(bgProcs') = Len(bgProcs) /\ bgLast' = bgLast

C35_StepAsStated ==
    /\ C35_EntriesKept
    /\ C35_Unknown
    /\ C35_OldStopped
    /\ (C35_Returns /\ bgRes'.arg <= Len(bgProcs)) => C35_NewEntry

\* C35 as amended: the new entry is there when the start succeeded
C35_RestartKeepsOldEntry == [][C35_Step]_vars

\* C35 as stated: every restart of a registered pid registers a new entry
C35_RestartAlwaysRegisters == [][C35_StepAsStated]_vars

\* a named process of a project was restarted after its child had to be
\* killed: the old entry is stopped, the new one is the last started
C35_Witness ==
    /\ bgRes.op = "restart_process" /\ bgRes.success
    /\ bgRes.arg \in 1..Len(bgProcs) /\ bgRes.pid \in 1..Len(bgProcs)
    /\ bgProcs[bgRes.arg].status = "stopped"
    /\ bgProcs[bgRes.pid].name = "srv" /\ bgProcs[bgRes.pid].status = "running"
    /\ bgLast = bgRes.pid

(***************************************************************************)
(* C33  In parse_and_execute_async a failing directive only adds to        *)
(* errors: when the parser returns, every directive of the reply has been  *)
(* attempted, in the order file, project, folder, launch, background run,  *)
(* stop, restart, foreground run; only a cancellation ends it early.       *)
(***************************************************************************)
C33_Order == <<"CREATE_FILE", "CREATE_PROJECT", "CREATE_FOLDER", "LAUNCH", "RUN_BG",
               "STOP_BG", "RESTART_BG", "RUN">>

C33_Rank(i) == CHOOSE k \in 1..Len(C33_Order) : C33_Order[k] = paReply[i].kind

\* C33: a parse that returned attempted every directive once, in the fixed
\* order, with every failing one in errors; a parse that did not return was
\* cancelled.
C33_EveryDirectiveAttempted ==
    LET att == paRes.attempted
    IN  /\ paRun.pc = "done" =>
              /\ Len(att) = Len(paReply)
              /\ {att[k] : k \in 1..Len(att)} = 1..Len(paReply)
              /\ \A a, b \in 1..Len(att) : a < b =>
                    \/ C33_Rank(att[a]) < C33_Rank(att[b])
                    \/ C33_Rank(att[a]) = C33_Rank(att[b]) /\ att[a] < att[b]
              /\ \A i \in 1..Len(paReply) : paReply[i].outcome # "ok" =>
                    \E k \in 1..Len(paRes.errors) : paRes.errors[k] = i
        /\ paRun.pc = "cancelled" => paRun.requested

(***************************************************************************)
(* Properties of TaskPlanner.analyze_task (specification SpecAt)           *)
(***************************************************************************)
\* the bucket ranges the targets are said to lie in
BucketRange(level) ==
    IF level = "small" THEN 3..6 ELSE IF level = "medium" THEN 7..12 ELSE 13..25

\* shorter than half the target
ShorterThanHalf(steps, target) == 2 * Len(steps) < target

\* C36: for a project classification the model's step list is kept unless it
\* is empty or shorter than half the target of the bucket (small 3..6,
\* medium 7..12, large 13..25); otherwise the final list is the canned plan
\* with exactly target entries; complexity.estimated_steps is the length of
\* the final list and suggested_concurrency is 2, 3, 4 for small, medium,
\* large.
C36_StepsKeptOrCannedPlan ==
    (atRes.n > 0 /\ atRes.ret.mode = "project") =>
        LET ret == atRes.ret
        IN  /\ ret.target \in BucketRange(ret.complexity.level)
            /\ IF atRes.model_steps = <<>> \/ ShorterThanHalf(atRes.model_steps, ret.target)
               THEN /\ ret.steps = break_down_task(atRes.user_input, ret.target)
                    /\ Len(ret.steps) = ret.target
               ELSE ret.steps = atRes.model_steps
            /\ ret.complexity.estimated_steps = Len(ret.steps)
            /\ ret.complexity.suggested_concurrency
                 = (IF ret.complexity.level = "small" THEN 2
                    ELSE IF ret.complexity.level = "medium" THEN 3 ELSE 4)

(***************************************************************************)
(* Properties of the stored record across runs (specification Spec)        *)
(***************************************************************************)
\* the run now starting was called without a project_id and the id derived
\* from its task name already has a stored record
NewRunOnExistingId ==
    /\ task.st = "created"
    /\ ~task.explicit
    /\ store[task.pid].status # "absent"

\* the progress stored in the record (current_step, current_substep, the
\* sub-step plans) is still there after the run has started
C37_Step ==
    (NewRunOnExistingId /\ task'.st # "created") =>
        /\ store'[task.pid].current_step = store[task.pid].current_step
        /\ store'[task.pid].current_substep = store[task.pid].current_substep
        /\ \A k \in StepIdx : store[task.pid].substeps_map[k] # 0 =>
               store'[task.pid].substeps_map[k] = store[task.pid].substeps_map[k]

\* C37: a run started without a project_id never replaces the stored record
\* of an existing project: either the derived id has no record yet, or the
\* progress of the existing record is kept.
C37_NewRunKeepsExistingRecord == [][C37_Step]_vars

\* C38: when the task running execute_complex_task has finished (normally,
\* by the exception of a sub-step or by cancellation) none of its sub-step
\* tasks is still running.
C38_NoSubstepOutlivesTask ==
    TaskFinished(task) => \A s \in subs : s.run = task.run => ~SubLive(s)

(***************************************************************************)
(* Properties of the stored record in both generations (specification      *)
(* SpecGen)                                                                *)
(***************************************************************************)
\* C39: every stored record with status completed has current_step equal to
\* the number of plan steps, in the current generation and in the initial
\* one.
C39_CompletedMeansAllSteps ==
    /\ pgStore.status = "completed" => pgStore.current_step = pgStore.steps
    /\ ogStore.status = "completed" => ogStore.current_step = ogStore.steps

\* the initial generation has saved a two-step project twice, the second
\* save with status completed
C39_Witness ==
    /\ ogStore.status = "completed"
    /\ ogStore.steps = 2
    /\ ogRun.saves = 2
    /\ ogRun.pc = "done"

(***************************************************************************)
(* Properties of a completed record across runs (specification Spec)       *)
(***************************************************************************)
\* a completed record is still completed after the step, or is gone
C40_Step ==
    \A p \in ProjectIds :
        store[p].status = "completed" => store'[p].status \in {"completed", "absent"}

\* C40: once the stored record of a project has status completed, no later
\* run, a resume of that project included, changes its status; the record
\* can only be removed by a delete.
C40_CompletedStaysCompleted == [][C40_Step]_vars

====
